---- MODULE Spec2Model ----
(***************************************************************************)
(* A model of the conversation-turn engine of pydanticai-agent:            *)
(*   - ConversationService.chat_stream (src/src/services/                  *)
(*     conversation_service.py): the streaming state machine that turns    *)
(*     the agent's event stream into persisted message rows and client     *)
(*     frames;                                                             *)
(*   - the chat endpoint (src/src/api/conversations.py): effective skill   *)
(*     set, sandbox map, agent toolset, background title task;             *)
(*   - the todo tools (src/pydantic_deep/toolsets/todo.py) and the todos   *)
(*     service (ConversationService.update_todos).                         *)
(*                                                                         *)
(* The server is one asyncio event loop: code between two suspension       *)
(* points (an await that really suspends, or a yield of a frame) runs      *)
(* atomically, so each action below is one such stretch of code.           *)
(***************************************************************************)
EXTENDS Integers, Sequences, FiniteSets, TLC

(***************************************************************************)
(* Bounds of the model.                                                    *)
(***************************************************************************)
\* tool calls the LLM issues, over all turns
MaxCalls == 2
MaxClones == 2          \* clones made of the deps of a turn
MaxWrites == 2          \* write_todos calls through the deps objects
\* text events (PartStart / PartDelta) the LLM streams, over all turns
MaxText == 2
\* entries of a todo list
MaxTodos == 2

\* The turns that are started on the one conversation of the turn engine
\* model; they may run one after the other or overlap.
Turns == {1, 2}

\* The tool the k-th call of a turn names
NameOfCall(k) == IF k % 2 = 1 THEN "ls" ELSE "write_todos"

VARIABLES
    \* ---- database: the messages table of the conversation, in commit order
    messages,
    \* ---- chat_stream: one frame of the generator per turn
    pc,                     \* where the generator of the turn stands
    step_order,             \* local variable step_order
    assistant_text_chunks,  \* local variable assistant_text_chunks
    current_tool_calls,     \* local variable current_tool_calls
    tool_names,             \* local variable tool_names (tool_call_id -> name)
    event,                  \* the FunctionToolResultEvent being handled
    frames,                 \* the frames the client of the turn has received
    \* ---- the agent run (pydantic_ai) that produces the event stream
    awaiting,               \* tool calls issued whose result is not yet out
    results_started,        \* the current batch has produced a result
    n_calls, n_text,        \* events produced so far
    \* ---- history of the turn (what happened, for stating the claims)
    persisted,              \* the rows the turn has committed, in order
    \* ---- todos
    deps_todos,             \* deps.todos of the turn (DeepAgentDeps)
    state_todos,            \* conversation.state["todos"] in the database
    \* ---- chat endpoint
    permitted_skills,       \* what get_allowed_skill_names returns for the user
    tool_grants,            \* MCP tools the user's roles grant (department blocks removed)
    active_mcp_tools,       \* tools served by the active MCP servers
    sandbox_manager,        \* _sandbox_manager: conversation_id -> sandbox
    sandboxes,              \* the DockerSandbox objects constructed so far
    request,                \* the chat requests in flight
    title,                  \* conversation.title in the database
    \* ---- callers of ConversationService
    reply,                  \* what the last read, or the last refused call, returned
    \* ---- MCP server registry and the config cache of mcp_config.py
    mcp_servers,            \* table mcp_servers: name -> row
    config_cache,           \* _config_cache
    config_hash,            \* _config_hash
    last_loaded,            \* what load_mcp_config_from_db returned last, since the
                            \* servers were last changed
    \* ---- tool permissions (tool_filter.py)
    users,                  \* table users: id -> row
    role_tool_permissions,  \* table role_tool_permissions
    department_tool_permissions, \* table department_tool_permissions
    mcp_tool_table,         \* table mcp_tools: the ids of the rows with is_active
    redis_cache,            \* the Redis entry user:tool_permissions:<user id>
    tool_reply,             \* what the last permission call returned, since the
                            \* tables were last changed
    \* ---- skill permissions (tool_filter.py, skill_filter.py, skill_service.py)
    role_skill_permissions, \* table role_skill_permissions
    department_skill_permissions, \* table department_skill_permissions
    skill_table,            \* table skills: the names of the rows with is_active
    skill_cache,            \* the Redis entry user:skill_permissions:<user id>
    skill_reply,            \* what the last skill permission call returned, since
                            \* the tables were last changed
    \* ---- DeepAgentDeps objects (deps.py) and the objects they refer to
    deps,                   \* the DeepAgentDeps objects: deps[1] is the one of the turn
    heap,                   \* the list and dict objects, named by their position
    \* ---- LLM model configurations (model_manager.py, api/models.py)
    llm_model_configs,      \* table llm_model_configs: name -> row
    model_cache,            \* ModelManager._model_cache
    model_reply,            \* what the last ModelManager call returned, since the
                            \* table was last changed by another call
    \* ---- history processor (processors/cleanup.py)
    history,                \* the message history of an agent run
    new_messages            \* what the processor returned for it, since it last grew

turnVars == <<messages, pc, step_order, assistant_text_chunks, current_tool_calls,
              tool_names, event, frames, awaiting, results_started, n_calls,
              n_text, persisted>>

todoVars == <<deps_todos, state_todos>>

mcpVars == <<mcp_servers, config_cache, config_hash, last_loaded>>

permVars == <<users, role_tool_permissions, department_tool_permissions,
              mcp_tool_table,              redis_cache, tool_reply>>

skillVars == <<role_skill_permissions, department_skill_permissions, skill_table,
               skill_cache, skill_reply>>

subagentVars == <<deps, heap>>

modelVars == <<llm_model_configs, model_cache, model_reply>>

processorVars == <<history, new_messages>>

restVars == <<subagentVars, modelVars, processorVars>>

laterVars == <<skillVars, restVars>>

otherVars == <<reply, mcpVars, permVars, laterVars>>

\* everything but the MCP registry and its cache
appVars == <<messages, pc, step_order, assistant_text_chunks, current_tool_calls,
             tool_names, event, frames, awaiting, results_started, n_calls, n_text,
             persisted, deps_todos, state_todos, permitted_skills, tool_grants,
             active_mcp_tools, sandbox_manager, sandboxes, request, title, reply,
             permVars, laterVars>>

chatVars == <<permitted_skills, tool_grants, active_mcp_tools, sandbox_manager,
              sandboxes, request, title, otherVars>>

vars == <<turnVars, todoVars, chatVars>>

(***************************************************************************)
(* Values                                                                  *)
(***************************************************************************)
\* SQL NULL in a text column / in the tool_call_id column / in a name column
NullText == <<-1>>
NullId == <<0, 0>>
NullName == "None"

\* Text is a sequence of characters; "".join(chunks) concatenates.
RECURSIVE Join(_)
Join(chunks) ==
    IF chunks = <<>> THEN <<>> ELSE Head(chunks) \o Join(Tail(chunks))

\* json.dumps(serialized_result, ensure_ascii=False): the JSON text of a value
JsonDumps(v) == [json |-> v]

\* Message(...) rows, one constructor per place that builds one
UserRow(step, text) ==
    [step_order |-> step, role |-> "user", content |-> text,
     tool_calls |-> <<>>, tool_name |-> NullName, tool_call_id |-> NullId,
     tool_return_content |-> JsonDumps(NullName)]

ModelRow(step, text, calls) ==
    [step_order |-> step, role |-> "model", content |-> text,
     tool_calls |-> calls, tool_name |-> NullName, tool_call_id |-> NullId,
     tool_return_content |-> JsonDumps(NullName)]

ToolReturnRow(step, name, id, result) ==
    [step_order |-> step, role |-> "tool-return", content |-> NullText,
     tool_calls |-> <<>>, tool_name |-> name, tool_call_id |-> id,
     tool_return_content |-> JsonDumps(result)]

\* The frames chat_stream yields, and the error frame of event_generator
TextFrame(chunk) ==
    [type |-> "text", content |-> chunk, tool_name |-> NullName, tool_call_id |-> NullId]
ToolCallFrame(call) ==
    [type |-> "tool_call", content |-> NullText, tool_name |-> call.name,
     tool_call_id |-> call.tool_call_id]
ToolResultFrame(name, id) ==
    [type |-> "tool_result", content |-> NullText, tool_name |-> name,
     tool_call_id |-> id]
ErrorFrame ==
    [type |-> "error", content |-> NullText, tool_name |-> NullName,
     tool_call_id |-> NullId]

\* The prompt of turn t, and the k-th text chunk the LLM streams in a turn
UserMessage(t) == <<100 + t>>
Chunk(k) == <<k>>

RECURSIVE SumOver(_, _)
SumOver(f, S) ==
    IF S = {} THEN 0
    ELSE LET x == CHOOSE y \in S : TRUE IN f[x] + SumOver(f, S \ {x})
\* events produced so far by all agent runs
Total(f) == SumOver(f, Turns)

Max(S) == CHOOSE x \in S : \A y \in S : y <= x

\* a helper that returns the greatest step_order itself
NextStepOrder_Greatest(msgs) ==
    IF msgs = <<>> THEN 1
    ELSE Max({msgs[i].step_order : i \in DOMAIN msgs})

\* _get_next_step_order: one more than the greatest step_order, 1 when empty
NextStepOrder(msgs) ==
    IF msgs = <<>> THEN 1
    ELSE Max({msgs[i].step_order : i \in DOMAIN msgs}) + 1

(***************************************************************************)
(* Init                                                                    *)
(***************************************************************************)
InitTurns ==
    /\ messages = <<>>
    /\ pc = [t \in Turns |-> "idle"]
    /\ step_order = [t \in Turns |-> 0]
    /\ assistant_text_chunks = [t \in Turns |-> <<>>]
    /\ current_tool_calls = [t \in Turns |-> <<>>]
    /\ tool_names = [t \in Turns |-> <<>>]
    /\ event = [t \in Turns |-> NullId]
    /\ frames = [t \in Turns |-> <<>>]
    /\ awaiting = [t \in Turns |-> {}]
    /\ results_started = [t \in Turns |-> FALSE]
    /\ n_calls = [t \in Turns |-> 0]
    /\ n_text = [t \in Turns |-> 0]
    /\ persisted = [t \in Turns |-> <<>>]

(***************************************************************************)
(* Todos                                                                   *)
(***************************************************************************)
Statuses == {"pending", "in_progress", "completed"}

\* A Todo / TodoItem (content and active_form are free text, left out)
Todo(status) == [status |-> status]

\* The lists the LLM can pass to write_todos (pydantic has validated them)
TodoLists == UNION {[1..n -> {Todo(st) : st \in Statuses}] : n \in 0..MaxTodos}

\* The dicts a client can put to the todos API: a known or an unknown status
\* string, or a dict with a missing key
TodoDicts ==
    {[status |-> st, has_keys |-> TRUE] : st \in Statuses \cup {"blocked"}}
        \cup {[status |-> "pending", has_keys |-> FALSE]}
TodoDictLists == UNION {[1..n -> TodoDicts] : n \in 0..MaxTodos}

\* todo.model_dump(): the dict of a Todo; Todo(**t): the Todo of a dict
ModelDump(todo) == [status |-> todo.status, has_keys |-> TRUE]
TodoFromDict(t) == Todo(t.status)

\* a turn that saves only the todos that are not completed
DumpTodos_OpenOnly(todos) ==
    LET open == SelectSeq(todos, LAMBDA todo : todo.status # "completed")
    IN  [i \in DOMAIN open |-> ModelDump(open[i])]

\* [t.model_dump() for t in deps.todos] if deps.todos else []
DumpTodos(todos) ==
    IF todos # <<>> THEN [i \in DOMAIN todos |-> ModelDump(todos[i])] ELSE <<>>

\* [Todo(**t) for t in conv.state["todos"]]
HydrateTodos(dicts) == [i \in DOMAIN dicts |-> TodoFromDict(dicts[i])]

InitTodos ==
    /\ deps_todos = [t \in Turns |-> <<>>]
    /\ state_todos = <<>>

(***************************************************************************)
(* Chat endpoint: values                                                   *)
(***************************************************************************)
Conversations == {1, 2}
Requests == {1, 2}
Skills == {"pdf", "xlsx"}
McpTools == {"tool_x", "tool_y"}
BuiltinTools ==
    {"read_todos", "write_todos", "ls", "read_file", "write_file", "edit_file",
     "glob", "grep", "execute", "list_skills", "load_skill", "read_skill_resource",
     "execute_skill_script"}

\* ChatRequest.mcp_tools / ChatRequest.skills: "auto" or a list of names
Auto == [auto |-> TRUE, names |-> {}]
Only(S) == [auto |-> FALSE, names |-> S]
Selections(U) == {Auto} \cup {Only(S) : S \in SUBSET U}

\* conversation.title: NULL, or a string (strings whose characters matter
\* are sequences of characters)
NoTitle == <<"<null>">>
NewChat == <<"N", "e", "w", " ", "C", "h", "a", "t">>
Untitled == <<"U", "n", "t", "i", "t", "l", "e", "d">>
\* the Chinese placeholder for "new conversation", one code point per character
XinHuiHua == <<"U+65B0", "U+4F1A", "U+8BDD">>
\* shared_buffer = None (no title task), as opposed to the empty list
NoBuffer == <<"<none>">>
\* the text a frame carries: nothing, visible text, or white space only
TextChunks == {<<>>, <<"t">>, <<" ">>}
\* what the title LLM may answer
RawTitles == {<<" ">>, NewChat, <<"'", "A", "'">>, <<" ", "B">>}

\* users; the conversation belongs to Conversation.user_id
Users == {1, 2}
ConversationUserId == 1
\* no call yet / the result of a call: not found (ValueError), or a value
NoReply == [op |-> "none", user_id |-> 0, found |-> FALSE, value |-> <<>>]
NotFound(op, user_id) == [op |-> op, user_id |-> user_id, found |-> FALSE, value |-> <<>>]
Found(op, user_id, value) == [op |-> op, user_id |-> user_id, found |-> TRUE, value |-> value]

\* names of MCP servers, and the values of their columns (NullName: NULL)
ServerNames == {"srv_a", "srv_b"}
TransportTypes == {"stdio", "http", "sse"}
Commands == {NullName, "npx"}
Urls == {NullName, "http://h/mcp"}
Envs == {NullName, "API_KEY=x"}
McpServer(transport_type, command, url, env, is_active) ==
    [transport_type |-> transport_type, command |-> command, url |-> url,
     env |-> env, is_active |-> is_active]
\* the dicts a client can post to create a server
ServerData ==
    {McpServer(tt, c, u, e, a) :
        tt \in TransportTypes, c \in Commands, u \in Urls, e \in Envs, a \in BOOLEAN}
\* the empty config {}, no hash (None), nothing returned yet
EmptyConfig == <<>>
NoHash == [md5 |-> FALSE, of |-> EmptyConfig]
NotLoaded == [loaded |-> FALSE, config |-> EmptyConfig]
Loaded(config) == [loaded |-> TRUE, config |-> config]


(***************************************************************************)
(* Tool permissions: values                                                *)
(***************************************************************************)
\* tool names whose characters matter (str.startswith) are sequences of
\* characters
Name_execute_sql == <<"e", "x", "e", "c", "u", "t", "e", "_", "s", "q", "l">>
Name_tool_x == <<"t", "o", "o", "l", "_", "x">>
Name_tool_y == <<"t", "o", "o", "l", "_", "y">>

\* _BUILTIN_TOOL_PREFIXES
BUILTIN_TOOL_PREFIXES ==
    {<<"r", "e", "a", "d", "_", "t", "o", "d", "o", "s">>,
     <<"w", "r", "i", "t", "e", "_", "t", "o", "d", "o", "s">>,
     <<"l", "s">>,
     <<"r", "e", "a", "d", "_", "f", "i", "l", "e">>,
     <<"w", "r", "i", "t", "e", "_", "f", "i", "l", "e">>,
     <<"e", "d", "i", "t", "_", "f", "i", "l", "e">>,
     <<"g", "l", "o", "b">>,
     <<"g", "r", "e", "p">>,
     <<"e", "x", "e", "c", "u", "t", "e">>,
     <<"t", "a", "s", "k">>,
     <<"l", "o", "a", "d", "_", "s", "k", "i", "l", "l">>,
     <<"r", "u", "n", "_", "s", "k", "i", "l", "l">>}

\* the names of the tools the built-in toolsets register, in the order
\* create_deep_agent adds the toolsets
TodoToolNames ==
    <<<<"r", "e", "a", "d", "_", "t", "o", "d", "o", "s">>,
      <<"w", "r", "i", "t", "e", "_", "t", "o", "d", "o", "s">>>>
FilesystemToolNames ==
    <<<<"l", "s">>,
      <<"r", "e", "a", "d", "_", "f", "i", "l", "e">>,
      <<"w", "r", "i", "t", "e", "_", "f", "i", "l", "e">>,
      <<"e", "d", "i", "t", "_", "f", "i", "l", "e">>,
      <<"g", "l", "o", "b">>,
      <<"g", "r", "e", "p">>,
      <<"e", "x", "e", "c", "u", "t", "e">>>>
SubagentToolNames ==
    <<<<"t", "a", "s", "k">>>>
SkillsToolNames ==
    <<<<"l", "i", "s", "t", "_", "s", "k", "i", "l", "l", "s">>,
      <<"l", "o", "a", "d", "_", "s", "k", "i", "l", "l">>,
      <<"r", "e", "a", "d", "_", "s", "k", "i", "l", "l", "_", "r", "e", "s", "o", "u", "r", "c", "e">>,
      <<"e", "x", "e", "c", "u", "t", "e", "_", "s", "k", "i", "l", "l", "_", "s", "c", "r", "i", "p", "t">>>>
BuiltinToolNames ==
    TodoToolNames \o FilesystemToolNames \o SubagentToolNames \o SkillsToolNames

\* the tools MCP servers serve: the two rows of table mcp_tools, and a tool
\* that is in no row of the table
ToolIds == {1, 2}
McpToolName(tool_id) == IF tool_id = 1 THEN Name_tool_x ELSE Name_tool_y
McpToolDefs == <<Name_tool_x, Name_tool_y, Name_execute_sql>>

Roles == {1, 2}
NoDepartment == 0
Departments == {1}
UserRows == [is_admin : BOOLEAN, roles : SUBSET Roles,
             department_id : {NoDepartment} \cup Departments]
RoleToolPermissionRows == [role_id : Roles, tool_id : ToolIds, can_use : BOOLEAN]
DepartmentToolPermissionRows ==
    [department_id : Departments, tool_id : ToolIds, is_allowed : BOOLEAN]
\* uq_role_tool, uq_dept_tool: one row per (role, tool), per (department, tool)
MaxRows == 1
RowSets(rows) == {S \in SUBSET rows : Cardinality(S) <= MaxRows}

\* user_id of the request: none, or the user whose row table users may hold
NoUserId == 0
UserIds == {NoUserId, 1}

\* the Redis entry: absent, or the JSON list of names
NoCache == [cached |-> FALSE, names |-> {}]
Cached(names) == [cached |-> TRUE, names |-> names]

NoToolReply ==
    [op |-> "none", user_id |-> NoUserId, cache_miss |-> FALSE, tool_defs |-> <<>>,
     permitted |-> {}, out |-> <<>>]

\* skills: Skill.name is unique, a row is named by it
NoSkillReply ==
    [op |-> "none", user_id |-> NoUserId, cache_miss |-> FALSE, raised |-> FALSE,
     skills |-> <<>>, permitted |-> {}, out |-> <<>>]

InitSkillPermissions ==
    /\ role_skill_permissions = {[role_id |-> 1, skill_id |-> "pdf", can_use |-> TRUE]}
    /\ department_skill_permissions = {}
    /\ skill_table = Skills
    /\ skill_cache = NoCache
    /\ skill_reply = NoSkillReply

\* list and dict objects: a file_paths list, a todos list, a subagents dict
PathList(paths) == [paths |-> paths, todos |-> <<>>, names |-> {}]
TodoList(todos) == [paths |-> <<>>, todos |-> todos, names |-> {}]
SubagentDict(names) == [paths |-> <<>>, todos |-> <<>>, names |-> names]

\* DeepAgentDeps(backend=sandbox, user_id=..., conversation_id=...,
\* file_paths=file_paths): todos and subagents get their default, a new empty
\* list and a new empty dict
InitDeps ==
    /\ heap = <<PathList(<<"/test.txt">>), TodoList(<<>>), SubagentDict({})>>
    /\ deps = <<[backend |-> 1, user_id |-> 1, conversation_id |-> 1,
                 file_paths |-> 1, todos |-> 2, subagents |-> 3]>>

\* the processor has not run on the history
NotProcessed == [processed |-> FALSE, messages |-> <<>>]

\* an agent run that has no message yet
InitHistory ==
    /\ history = <<>>
    /\ new_messages = NotProcessed

\* no reply of the ModelManager
NoModelReply ==
    [op |-> "none", model_name |-> "", raised |-> FALSE, cached |-> FALSE,
     model |-> [config |-> "", model_name |-> ""]]

\* ModelManager.__init__: an empty cache; the table has no row yet
InitModels ==
    /\ llm_model_configs = <<>>
    /\ model_cache = <<>>
    /\ model_reply = NoModelReply

InitPermissions ==
    /\ users = <<[is_admin |-> FALSE, roles |-> {1}, department_id |-> NoDepartment]>>
    /\ role_tool_permissions = {[role_id |-> 1, tool_id |-> 1, can_use |-> TRUE]}
    /\ department_tool_permissions = {}
    /\ mcp_tool_table = ToolIds
    /\ redis_cache = NoCache
    /\ tool_reply = NoToolReply

NoRequest ==
    [status |-> "none", conversation_id |-> 0, skills |-> Auto,
     effective_skill_names |-> {}, loaded_skills |-> {}, sandbox |-> 0,
     mcp_tools |-> Auto, toolset |-> {}, shared_buffer |-> NoBuffer]

InitChat ==
    /\ permitted_skills = Skills
    /\ tool_grants = McpTools
    /\ active_mcp_tools = McpTools
    /\ sandbox_manager = <<>>
    /\ sandboxes = <<>>
    /\ request = [r \in Requests |-> NoRequest]
    /\ title = [c \in Conversations |-> NoTitle]
    /\ reply = NoReply
    /\ mcp_servers = <<>>
    /\ config_cache = EmptyConfig
    /\ config_hash = NoHash
    /\ last_loaded = NotLoaded

Init == InitTurns /\ InitTodos /\ InitChat /\ InitPermissions /\ InitSkillPermissions
        /\ InitDeps /\ InitModels /\ InitHistory

(***************************************************************************)
(* ConversationService.chat_stream                                         *)
(***************************************************************************)
\* tool_names.get(event.tool_call_id, "unknown")
ToolNameFor(names, id) == IF id \in DOMAIN names THEN names[id] ELSE "unknown"

\* The result value a tool produces (tool-level errors are results as well):
\* here a piece of text
ResultOf(id) == [text |-> "ok"]

\* A slip: the tool-return row is committed before the model row of its batch
RowsOnToolResult_ReturnFirst(step, chunks, calls, name, id) ==
    IF calls # <<>>
    THEN <<ToolReturnRow(step, name, id, ResultOf(id)),
           ModelRow(step + 1, Join(chunks), calls)>>
    ELSE <<ToolReturnRow(step, name, id, ResultOf(id))>>

\* A slip: the flushed model row carries only the call whose result came in
RowsOnToolResult_OwnCallOnly(step, chunks, calls, name, id) ==
    IF calls # <<>>
    THEN <<ModelRow(step, Join(chunks), SelectSeq(calls, LAMBDA c : c.tool_call_id = id)),
           ToolReturnRow(step + 1, name, id, ResultOf(id))>>
    ELSE <<ToolReturnRow(step, name, id, ResultOf(id))>>

\* The rows the FunctionToolResultEvent branch commits once the tool_result
\* frame has been taken by the client: the model row with the pending tool
\* calls (only when some are pending), then the tool-return row.
RowsOnToolResult(step, chunks, calls, name, id) ==
    IF calls # <<>>
    THEN <<ModelRow(step, Join(chunks), calls),
           ToolReturnRow(step + 1, name, id, ResultOf(id))>>
    ELSE <<ToolReturnRow(step, name, id, ResultOf(id))>>

\* a turn that does not store the text streamed after the last tool result
RowsOnEndOfStream_NoFinalRow(step, chunks) == <<>>

\* The row committed after the stream has ended: the final assistant text
RowsOnEndOfStream(step, chunks) ==
    IF chunks # <<>> THEN <<ModelRow(step, Join(chunks), <<>>)>> ELSE <<>>

\* A slip: the call is recorded but no tool_call frame is yielded
FramesOnToolCall_Silent(call) == <<>>

\* The frames yielded for a FunctionToolCallEvent
FramesOnToolCall(call) == <<ToolCallFrame(call)>>

\* Steps 1-2 of chat_stream, up to the first read of the event stream: the
\* todos are hydrated from the conversation state, the next step_order is
\* read, the user row is committed at once.
StartTurn(t) ==
    /\ pc[t] = "idle"
    /\ \A u \in Turns : u < t => pc[u] # "idle"
    /\ LET row == UserRow(NextStepOrder(messages), UserMessage(t)) IN
        /\ messages' = Append(messages, row)
        /\ persisted' = [persisted EXCEPT ![t] = <<row>>]
        /\ step_order' = [step_order EXCEPT ![t] = row.step_order + 1]
    /\ assistant_text_chunks' = [assistant_text_chunks EXCEPT ![t] = <<>>]
    /\ current_tool_calls' = [current_tool_calls EXCEPT ![t] = <<>>]
    /\ tool_names' = [tool_names EXCEPT ![t] = <<>>]
    /\ pc' = [pc EXCEPT ![t] = "streaming"]
    /\ UNCHANGED <<event, frames, awaiting, results_started, n_calls, n_text>>
    /\ deps_todos' = [deps_todos EXCEPT ![t] = HydrateTodos(state_todos)]
    /\ UNCHANGED <<state_todos, chatVars>>

\* PartStartEvent(TextPart) / PartDeltaEvent(TextPartDelta): an empty chunk is
\* dropped, any other is accumulated and yielded as a text frame.
OnTextEvent(t, chunk) ==
    /\ pc[t] = "streaming"
    /\ awaiting[t] = {}
    /\ Total(n_text) < MaxText
    /\ n_text' = [n_text EXCEPT ![t] = @ + 1]
    /\ IF chunk # <<>>
       THEN /\ assistant_text_chunks' = [assistant_text_chunks EXCEPT ![t] = Append(@, chunk)]
            /\ frames' = [frames EXCEPT ![t] = Append(@, TextFrame(chunk))]
       ELSE UNCHANGED <<assistant_text_chunks, frames>>
    /\ UNCHANGED <<messages, pc, step_order, current_tool_calls, tool_names, event,
                   awaiting, results_started, n_calls, persisted>>
    /\ UNCHANGED <<todoVars, chatVars>>

\* FunctionToolCallEvent: the call joins the batch and is announced.
OnToolCallEvent(t, name) ==
    /\ pc[t] = "streaming"
    /\ ~results_started[t]
    /\ Total(n_calls) < MaxCalls
    /\ LET call == [name |-> name, tool_call_id |-> <<t, n_calls[t] + 1>>] IN
        /\ current_tool_calls' = [current_tool_calls EXCEPT ![t] = Append(@, call)]
        /\ tool_names' = [tool_names EXCEPT ![t] = (call.tool_call_id :> call.name) @@ @]
        /\ frames' = [frames EXCEPT ![t] = @ \o FramesOnToolCall(call)]
        /\ awaiting' = [awaiting EXCEPT ![t] = @ \cup {call.tool_call_id}]
    /\ n_calls' = [n_calls EXCEPT ![t] = @ + 1]
    /\ UNCHANGED <<messages, pc, step_order, assistant_text_chunks, event,
                   results_started, n_text, persisted>>
    /\ UNCHANGED <<todoVars, chatVars>>

\* FunctionToolResultEvent, first half: the tool_result frame is yielded; the
\* generator is suspended at that yield until the client takes the frame.
OnToolResultEvent(t, id) ==
    /\ pc[t] = "streaming"
    /\ id \in awaiting[t]
    /\ awaiting' = [awaiting EXCEPT ![t] = @ \ {id}]
    /\ results_started' = [results_started EXCEPT ![t] = (awaiting[t] \ {id} # {})]
    /\ event' = [event EXCEPT ![t] = id]
    /\ frames' = [frames EXCEPT ![t] =
                    Append(@, ToolResultFrame(ToolNameFor(tool_names[t], id), id))]
    /\ pc' = [pc EXCEPT ![t] = "yield_result"]
    /\ UNCHANGED <<messages, step_order, assistant_text_chunks, current_tool_calls,
                   tool_names, n_calls, n_text, persisted>>
    /\ UNCHANGED <<todoVars, chatVars>>

\* FunctionToolResultEvent, second half: resumed after the yield, the pending
\* model row is flushed and the tool-return row committed.
AfterToolResultYield(t) ==
    /\ pc[t] = "yield_result"
    /\ LET rows == RowsOnToolResult(step_order[t], assistant_text_chunks[t],
                                    current_tool_calls[t],
                                    ToolNameFor(tool_names[t], event[t]), event[t]) IN
        /\ messages' = messages \o rows
        /\ persisted' = [persisted EXCEPT ![t] = @ \o rows]
        /\ step_order' = [step_order EXCEPT ![t] = @ + Len(rows)]
    /\ IF current_tool_calls[t] # <<>>
       THEN /\ assistant_text_chunks' = [assistant_text_chunks EXCEPT ![t] = <<>>]
            /\ current_tool_calls' = [current_tool_calls EXCEPT ![t] = <<>>]
       ELSE UNCHANGED <<assistant_text_chunks, current_tool_calls>>
    /\ event' = [event EXCEPT ![t] = NullId]
    /\ pc' = [pc EXCEPT ![t] = "streaming"]
    /\ UNCHANGED <<tool_names, frames, awaiting, results_started, n_calls, n_text>>
    /\ UNCHANGED <<todoVars, chatVars>>

\* The stream is exhausted: the final assistant row is committed, then the
\* state (the todos of deps) is saved to the conversation.
EndOfStream(t) ==
    /\ pc[t] = "streaming"
    /\ awaiting[t] = {}
    /\ LET rows == RowsOnEndOfStream(step_order[t], assistant_text_chunks[t]) IN
        /\ messages' = messages \o rows
        /\ persisted' = [persisted EXCEPT ![t] = @ \o rows]
    /\ pc' = [pc EXCEPT ![t] = "done"]
    /\ UNCHANGED <<step_order, assistant_text_chunks, current_tool_calls, tool_names,
                   event, frames, awaiting, results_started, n_calls, n_text>>
    /\ state_todos' = DumpTodos(deps_todos[t])
    /\ UNCHANGED <<deps_todos, chatVars>>

\* A slip: the failure also rolls back the rows the turn has committed
StreamError_Rollback(t) ==
    /\ pc[t] = "streaming"
    /\ frames' = [frames EXCEPT ![t] = Append(@, ErrorFrame)]
    /\ pc' = [pc EXCEPT ![t] = "failed"]
    /\ messages' = SelectSeq(messages,
                             LAMBDA row : \A i \in DOMAIN persisted[t] : persisted[t][i] # row)
    /\ UNCHANGED <<step_order, assistant_text_chunks, current_tool_calls,
                   tool_names, event, awaiting, results_started, n_calls, n_text,
                   persisted>>
    /\ UNCHANGED <<todoVars, chatVars>>

\* The agent run raises (LLM stream error, ...): chat_stream has no handler,
\* event_generator turns the exception into one error frame and ends.
StreamError(t) ==
    /\ pc[t] = "streaming"
    /\ frames' = [frames EXCEPT ![t] = Append(@, ErrorFrame)]
    /\ pc' = [pc EXCEPT ![t] = "failed"]
    /\ UNCHANGED <<messages, step_order, assistant_text_chunks, current_tool_calls,
                   tool_names, event, awaiting, results_started, n_calls, n_text,
                   persisted>>
    /\ UNCHANGED <<todoVars, chatVars>>

\* The client disconnects: the generator is cancelled where it is suspended
\* (awaiting the next event, or at a yield); chat_stream has no finally block.
Disconnect(t) ==
    /\ pc[t] \in {"streaming", "yield_result"}
    /\ pc' = [pc EXCEPT ![t] = "cancelled"]
    /\ UNCHANGED <<messages, step_order, assistant_text_chunks, current_tool_calls,
                   tool_names, event, frames, awaiting, results_started, n_calls,
                   n_text, persisted>>
    /\ UNCHANGED <<todoVars, chatVars>>

\* The turn engine: turns of one conversation, one after the other or
\* overlapping, each ended normally, by a stream error or by a disconnect.
Next ==
    \E t \in Turns :
        \/ StartTurn(t)
        \/ \E chunk \in {<<>>, Chunk(n_text[t] + 1)} : OnTextEvent(t, chunk)
        \/ OnToolCallEvent(t, NameOfCall(n_calls[t] + 1))
        \/ \E id \in awaiting[t] : OnToolResultEvent(t, id)
        \/ AfterToolResultYield(t)
        \/ EndOfStream(t)
        \/ StreamError(t)
        \/ Disconnect(t)

Spec == Init /\ [][Next]_vars

\* a turn that begins while no other turn of the conversation is running
Active(t) == pc[t] \in {"streaming", "yield_result"}
StartTurnAlone(t) ==
    /\ \A u \in Turns \ {t} : ~Active(u)
    /\ StartTurn(t)

\* Turns of one conversation that do not overlap, each ended normally, by a
\* stream error or by a disconnect.
NextSequential ==
    \E t \in Turns :
        \/ StartTurnAlone(t)
        \/ \E chunk \in {<<>>, Chunk(n_text[t] + 1)} : OnTextEvent(t, chunk)
        \/ OnToolCallEvent(t, NameOfCall(n_calls[t] + 1))
        \/ \E id \in awaiting[t] : OnToolResultEvent(t, id)
        \/ AfterToolResultYield(t)
        \/ EndOfStream(t)
        \/ StreamError(t)
        \/ Disconnect(t)

SpecSequential == Init /\ [][NextSequential]_vars

(***************************************************************************)
(* ConversationService.get_history                                         *)
(***************************************************************************)
\* select(Message).order_by(Message.step_order): the rows by step_order, rows
\* of equal step_order in commit order
RECURSIVE OrderByStepOrder(_)
OrderByStepOrder(msgs) ==
    IF msgs = <<>> THEN <<>>
    ELSE LET least == CHOOSE i \in DOMAIN msgs :
                        \A j \in DOMAIN msgs :
                            \/ msgs[i].step_order < msgs[j].step_order
                            \/ msgs[i].step_order = msgs[j].step_order /\ i <= j
         IN <<msgs[least]>> \o
            OrderByStepOrder([k \in 1..(Len(msgs) - 1) |->
                                 IF k < least THEN msgs[k] ELSE msgs[k + 1]])

\* the messages get_history builds, and their parts
ModelRequest(parts) == [kind |-> "request", parts |-> parts]
ModelResponse(parts) == [kind |-> "response", parts |-> parts]
UserPromptPart(content) ==
    [part_kind |-> "user-prompt", content |-> content, tool_name |-> NullName,
     tool_call_id |-> NullId, tool_content |-> JsonDumps(NullName)]
TextPart(content) ==
    [part_kind |-> "text", content |-> content, tool_name |-> NullName,
     tool_call_id |-> NullId, tool_content |-> JsonDumps(NullName)]
ToolCallPart(tool_name, tool_call_id) ==
    [part_kind |-> "tool-call", content |-> NullText, tool_name |-> tool_name,
     tool_call_id |-> tool_call_id, tool_content |-> JsonDumps(NullName)]
ToolReturnPart(tool_name, content, tool_call_id) ==
    [part_kind |-> "tool-return", content |-> NullText, tool_name |-> tool_name,
     tool_call_id |-> tool_call_id, tool_content |-> content]

\* the message one row becomes
MessageOfRow(db_msg) ==
    IF db_msg.role = "user"
    THEN ModelRequest(<<UserPromptPart(db_msg.content)>>)
    ELSE IF db_msg.role = "model"
    THEN ModelResponse(
            (IF db_msg.content # <<>> THEN <<TextPart(db_msg.content)>> ELSE <<>>)
            \o [i \in DOMAIN db_msg.tool_calls |->
                   ToolCallPart(db_msg.tool_calls[i].name, db_msg.tool_calls[i].tool_call_id)])
    ELSE ModelRequest(<<ToolReturnPart(db_msg.tool_name, db_msg.tool_return_content,
                                       db_msg.tool_call_id)>>)

\* get_history: one message per row, in step_order
GetHistory(msgs) ==
    LET db_messages == OrderByStepOrder(msgs)
    IN [i \in DOMAIN db_messages |-> MessageOfRow(db_messages[i])]

(***************************************************************************)
(* The todo tools and the todos service                                    *)
(***************************************************************************)
\* write_todos (tool of the todo toolset), run by the agent while chat_stream
\* waits for the next event: deps.todos is replaced by the given list.
WriteTodos(t, todos) ==
    /\ pc[t] = "streaming"
    /\ deps_todos' = [deps_todos EXCEPT ![t] = todos]
    /\ UNCHANGED <<turnVars, state_todos, chatVars>>

\* The structure check of update_todos: every dict has the three keys and a
\* status among the three known ones.
ValidTodoDicts(dicts) ==
    \A i \in DOMAIN dicts : dicts[i].has_keys /\ dicts[i].status \in Statuses

\* ConversationService.update_todos (PUT .../todos): the whole list of the
\* conversation state is replaced; a malformed list raises ValueError.
UpdateTodos(dicts) ==
    /\ IF ValidTodoDicts(dicts)
       THEN state_todos' = dicts
       ELSE UNCHANGED state_todos
    /\ UNCHANGED <<turnVars, deps_todos, chatVars>>

\* Turns that call write_todos, and clients that put todo lists.
NextTodo ==
    \/ \E t \in Turns :
        \/ StartTurn(t)
        \/ \E todos \in TodoLists : WriteTodos(t, todos)
        \/ EndOfStream(t)
        \/ StreamError(t)
        \/ Disconnect(t)
    \/ \E dicts \in TodoDictLists : UpdateTodos(dicts)

SpecTodo == Init /\ [][NextTodo]_vars

(***************************************************************************)
(* ConversationService called on behalf of a user (the conversation is not *)
(* archived)                                                               *)
(***************************************************************************)
\* a service that looks the conversation up by its id alone
GetConversation_AnyUser(user_id) == TRUE

\* get_conversation: the conversation is found only for the user it belongs to
GetConversation(user_id) == user_id = ConversationUserId

\* chat_stream(conversation_id, user_message, user_id, ...): step 1 raises
\* ValueError for a conversation that is not found, and event_generator turns
\* it into an error frame; otherwise the turn begins.
ChatStream(t, user_id) ==
    IF GetConversation(user_id)
    THEN StartTurn(t)
    ELSE /\ pc[t] = "idle"
         /\ \A u \in Turns : u < t => pc[u] # "idle"
         /\ frames' = [frames EXCEPT ![t] = Append(@, ErrorFrame)]
         /\ pc' = [pc EXCEPT ![t] = "failed"]
         /\ reply' = NotFound("chat_stream", user_id)
         /\ UNCHANGED <<messages, step_order, assistant_text_chunks, current_tool_calls,
                        tool_names, event, awaiting, results_started, n_calls, n_text,
                        persisted, todoVars, permitted_skills, tool_grants,
                        active_mcp_tools, sandbox_manager, sandboxes, request, title,
                        mcpVars, permVars, laterVars>>

\* get_conversation as called by the API: the conversation (title and state)
GetConversationFor(user_id) ==
    /\ reply' = IF GetConversation(user_id)
                THEN Found("get_conversation", user_id,
                           <<title[1], state_todos>>)
                ELSE NotFound("get_conversation", user_id)
    /\ UNCHANGED <<turnVars, todoVars, permitted_skills, tool_grants, active_mcp_tools,
                   sandbox_manager, sandboxes, request, title, mcpVars, permVars, laterVars>>

\* get_messages: the rows in step_order
GetMessages(user_id) ==
    /\ reply' = IF GetConversation(user_id)
                THEN Found("get_messages", user_id, OrderByStepOrder(messages))
                ELSE NotFound("get_messages", user_id)
    /\ UNCHANGED <<turnVars, todoVars, permitted_skills, tool_grants, active_mcp_tools,
                   sandbox_manager, sandboxes, request, title, mcpVars, permVars, laterVars>>

\* get_todos: the todos of the saved state
GetTodos(user_id) ==
    /\ reply' = IF GetConversation(user_id)
                THEN Found("get_todos", user_id, state_todos)
                ELSE NotFound("get_todos", user_id)
    /\ UNCHANGED <<turnVars, todoVars, permitted_skills, tool_grants, active_mcp_tools,
                   sandbox_manager, sandboxes, request, title, mcpVars, permVars, laterVars>>

\* update_todos(conversation_id, user_id, todos)
UpdateTodosFor(user_id, dicts) ==
    IF GetConversation(user_id)
    THEN UpdateTodos(dicts)
    ELSE /\ reply' = NotFound("update_todos", user_id)
         /\ UNCHANGED <<turnVars, todoVars, permitted_skills, tool_grants,
                        active_mcp_tools, sandbox_manager, sandboxes, request, title,
                        mcpVars, permVars, laterVars>>

\* The owner and another user call the service on the same conversation.
NextOwner ==
    \/ \E t \in Turns :
        \/ \E user_id \in Users : ChatStream(t, user_id)
        \/ OnTextEvent(t, Chunk(n_text[t] + 1))
        \/ EndOfStream(t)
    \/ \E user_id \in Users :
        \/ GetConversationFor(user_id)
        \/ GetMessages(user_id)
        \/ GetTodos(user_id)
        \/ \E dicts \in {ds \in TodoDictLists : Len(ds) <= 1} : UpdateTodosFor(user_id, dicts)

SpecOwner == Init /\ [][NextOwner]_vars

(***************************************************************************)
(* The chat endpoint (POST /{conversation_id}/chat) and its background     *)
(* tasks                                                                   *)
(***************************************************************************)
\* a handler that takes the selection as it comes
EffectiveSkillNames_AsSelected(allowed_skill_names, skills) ==
    IF skills.auto THEN allowed_skill_names ELSE skills.names

\* effective skills: the user's permitted skills, narrowed by the selection
EffectiveSkillNames(allowed_skill_names, skills) ==
    IF skills.auto THEN allowed_skill_names
    ELSE {sk \in skills.names : sk \in allowed_skill_names}

\* the skill folders under BASE_DIR/skills, by the name of their SKILL.md
SkillsOnDisk == Skills

\* the argument skill_names: None, or a list of names
None == [none |-> TRUE, names |-> {}]
Names(names) == [none |-> FALSE, names |-> names]
\* x if x else None
OrNone(names) == IF names # {} THEN Names(names) ELSE None

\* discover_skills_from_directory(skills_dir, skill_names): the skills whose
\* metadata is returned
DiscoverSkillsFromDirectory(on_disk, skill_names) ==
    {skill_name \in on_disk : ~(~skill_names.none /\ skill_name \notin skill_names.names)}

\* DockerSandbox(conversation_id=..., allowed_skill_names=...): the skill
\* directories named at construction are the ones mounted in the container.
DockerSandbox(conversation_id, allowed_skill_names) ==
    [conversation_id |-> conversation_id, mounted |-> allowed_skill_names,
     running |-> FALSE]
\* the container runs once a command has been executed in the sandbox
Started(sandbox) == [sandbox EXCEPT !.running = TRUE]
\* sandbox.stop()
Stopped(sandbox) == [sandbox EXCEPT !.running = FALSE]

\* a handler that builds a sandbox for every request
AcquireSandbox_AlwaysCreate(manager, boxes, conversation_id, effective_skill_names) ==
    [sandbox |-> Len(boxes) + 1,
     manager |-> [c \in DOMAIN manager \cup {conversation_id} |->
                     IF c = conversation_id THEN Len(boxes) + 1 ELSE manager[c]],
     sandboxes |-> Append(boxes, DockerSandbox(conversation_id, effective_skill_names))]

\* "Reuse or create sandbox for this conversation": the sandbox the request
\* works with, and the map and the sandbox objects afterwards.
AcquireSandbox(manager, boxes, conversation_id, effective_skill_names) ==
    IF conversation_id \in DOMAIN manager
    THEN [sandbox |-> manager[conversation_id], manager |-> manager, sandboxes |-> boxes]
    ELSE [sandbox |-> Len(boxes) + 1,
          manager |-> [c \in DOMAIN manager \cup {conversation_id} |->
                          IF c = conversation_id THEN Len(boxes) + 1 ELSE manager[c]],
          sandboxes |-> Append(boxes, DockerSandbox(conversation_id, effective_skill_names))]

\* The tools of the toolsets create_deep_agent hands to Agent: the built-in
\* toolsets, and one FastMCPToolset over every active MCP server.
CreateDeepAgentToolsets(enable_mcp_tools, active) ==
    BuiltinTools \cup (IF enable_mcp_tools THEN active ELSE {})

\* str.strip(): white space removed at both ends
RECURSIVE LStrip(_, _)
LStrip(str, chars) ==
    IF str # <<>> /\ Head(str) \in chars THEN LStrip(Tail(str), chars) ELSE str
RECURSIVE RStrip(_, _)
RStrip(str, chars) ==
    IF str # <<>> /\ str[Len(str)] \in chars
    THEN RStrip(SubSeq(str, 1, Len(str) - 1), chars) ELSE str
StripChars(str, chars) == RStrip(LStrip(str, chars), chars)
Strip(str) == StripChars(str, {" "})

\* ConversationService.should_generate_title
ShouldGenerateTitle(conversation_title) ==
    \/ conversation_title = NoTitle
    \/ Strip(conversation_title) \in {<<>>, XinHuiHua, NewChat, Untitled}

\* the title generate_title_async stores for the answer of the title LLM
CleanTitle(output) ==
    LET stripped == StripChars(Strip(output), {"\"", "'"})
    IN IF Len(stripped) > 50 THEN SubSeq(stripped, 1, 47) \o <<".", ".", ".">>
       ELSE stripped

\* The handler of POST /{conversation_id}/chat, up to the return of the
\* StreamingResponse; it runs on the event loop without suspending.  accepted:
\* whether Agent(...) takes the keywords mcp_tool_names and skill_names that
\* create_deep_agent forwards to it.  conv_found: whether get_conversation
\* finds the conversation for the current user.
ChatHandler(r, conversation_id, skills, mcp_tools, accepted, conv_found) ==
    /\ request[r].status = "none"
    /\ LET allowed_skill_names == permitted_skills
           effective_skill_names == EffectiveSkillNames(allowed_skill_names, skills)
           got == AcquireSandbox(sandbox_manager, sandboxes, conversation_id,
                                 effective_skill_names)
           shared_buffer == IF conv_found /\ ShouldGenerateTitle(title[conversation_id])
                            THEN <<>> ELSE NoBuffer
       IN /\ sandbox_manager' = got.manager
          /\ sandboxes' = [got.sandboxes EXCEPT ![got.sandbox] = Started(@)]
          /\ request' = [request EXCEPT ![r] =
                IF accepted
                THEN [status |-> "streaming", conversation_id |-> conversation_id,
                      skills |-> skills,
                      effective_skill_names |-> effective_skill_names,
                      loaded_skills |->
                          DiscoverSkillsFromDirectory(SkillsOnDisk,
                                                      OrNone(effective_skill_names)),
                      sandbox |-> got.sandbox, mcp_tools |-> mcp_tools,
                      toolset |-> CreateDeepAgentToolsets(TRUE, active_mcp_tools),
                      shared_buffer |-> shared_buffer]
                ELSE NoRequest]

\* the request of the user the conversation belongs to
ChatRequest(r, conversation_id, skills, mcp_tools, accepted) ==
    /\ ChatHandler(r, conversation_id, skills, mcp_tools, accepted, TRUE)
    /\ UNCHANGED <<turnVars, todoVars, otherVars, permitted_skills, tool_grants, active_mcp_tools, title>>

\* the request of any authenticated user on the conversation of
\* ConversationUserId
ChatRequestBy(r, user_id, skills, accepted) ==
    /\ ChatHandler(r, 1, skills, Auto, accepted, GetConversation(user_id))
    /\ reply' = IF GetConversation(user_id)
                THEN Found("chat", user_id, <<title[1], state_todos>>)
                ELSE NotFound("chat", user_id)
    /\ UNCHANGED <<turnVars, todoVars, mcpVars, permVars, laterVars, permitted_skills,
                   tool_grants, active_mcp_tools, title>>

\* event_generator passes a text frame on, and collects its content for the
\* title task
ForwardTextFrame(r, content) ==
    /\ request[r].status = "streaming"
    /\ IF request[r].shared_buffer # NoBuffer /\ content # <<>>
       THEN /\ Len(request[r].shared_buffer) < MaxText
            /\ request' = [request EXCEPT ![r].shared_buffer = Append(@, content)]
       ELSE UNCHANGED request
    /\ UNCHANGED <<turnVars, todoVars, otherVars, permitted_skills, tool_grants, active_mcp_tools,
                   sandbox_manager, sandboxes, title>>

\* The response has been sent: the background tasks run in the order they
\* were added, the title task (if any) first.
ResponseSent(r) ==
    /\ request[r].status = "streaming"
    /\ request' = [request EXCEPT ![r].status =
            IF request[r].shared_buffer # NoBuffer THEN "bg_title" ELSE "bg_stop"]
    /\ UNCHANGED <<turnVars, todoVars, otherVars, permitted_skills, tool_grants, active_mcp_tools,
                   sandbox_manager, sandboxes, title>>

\* background_generate_title up to the call of the title LLM
BackgroundGenerateTitle(r) ==
    /\ request[r].status = "bg_title"
    /\ LET shared_buffer == request[r].shared_buffer
           assistant_response == Join(shared_buffer)
       IN request' = [request EXCEPT ![r].status =
            IF shared_buffer = <<>> THEN "bg_stop"
            ELSE IF Strip(assistant_response) = <<>> THEN "bg_stop"
            ELSE IF ShouldGenerateTitle(title[request[r].conversation_id])
                 THEN "title_agent_run" ELSE "bg_stop"]
    /\ UNCHANGED <<turnVars, todoVars, otherVars, permitted_skills, tool_grants, active_mcp_tools,
                   sandbox_manager, sandboxes, title>>

\* generate_title_async after the title LLM answered: the cleaned answer is
\* stored as the title
GenerateTitleAnswered(r, output) ==
    /\ request[r].status = "title_agent_run"
    /\ title' = [title EXCEPT ![request[r].conversation_id] = CleanTitle(output)]
    /\ request' = [request EXCEPT ![r].status = "bg_stop"]
    /\ UNCHANGED <<turnVars, todoVars, otherVars, permitted_skills, tool_grants, active_mcp_tools,
                   sandbox_manager, sandboxes>>

\* generate_title_async when the title LLM fails: the exception is logged
GenerateTitleFailed(r) ==
    /\ request[r].status = "title_agent_run"
    /\ request' = [request EXCEPT ![r].status = "bg_stop"]
    /\ UNCHANGED <<turnVars, todoVars, otherVars, permitted_skills, tool_grants, active_mcp_tools,
                   sandbox_manager, sandboxes, title>>

\* a stop task that also drops the conversation from the map
BackgroundStopSandbox_Evict(r) ==
    /\ request[r].status = "bg_stop"
    /\ sandboxes' = [sandboxes EXCEPT ![request[r].sandbox] =
            IF @.running THEN Stopped(@) ELSE @]
    /\ sandbox_manager' = [c \in DOMAIN sandbox_manager \ {request[r].conversation_id} |->
                              sandbox_manager[c]]
    /\ request' = [request EXCEPT ![r] = NoRequest]
    /\ UNCHANGED <<turnVars, todoVars, otherVars, permitted_skills, tool_grants, active_mcp_tools,
                   title>>

\* background_stop_sandbox: the container is stopped, the map keeps the sandbox
BackgroundStopSandbox(r) ==
    /\ request[r].status = "bg_stop"
    /\ sandboxes' = [sandboxes EXCEPT ![request[r].sandbox] =
            IF @.running THEN Stopped(@) ELSE @]
    /\ request' = [request EXCEPT ![r] = NoRequest]
    /\ UNCHANGED <<turnVars, todoVars, otherVars, permitted_skills, tool_grants, active_mcp_tools,
                   sandbox_manager, title>>

\* An administrator changes what the user may use (skill and tool permissions
\* of the user's roles and department), or which MCP servers are active.
SetSkillPermissions(S) ==
    /\ permitted_skills' = S
    /\ UNCHANGED <<turnVars, todoVars, otherVars, tool_grants, active_mcp_tools, sandbox_manager,
                   sandboxes, request, title>>
SetToolGrants(S) ==
    /\ tool_grants' = S
    /\ UNCHANGED <<turnVars, todoVars, otherVars, permitted_skills, active_mcp_tools, sandbox_manager,
                   sandboxes, request, title>>
SetActiveMcpTools(S) ==
    /\ active_mcp_tools' = S
    /\ UNCHANGED <<turnVars, todoVars, otherVars, permitted_skills, tool_grants, sandbox_manager,
                   sandboxes, request, title>>

\* Requests with skill selections on two conversations, while the skill
\* permissions change.
NextSandbox ==
    \/ \E r \in Requests :
        \/ \E c \in Conversations, skills \in {Auto} \cup {Only({sk}) : sk \in Skills},
              accepted \in BOOLEAN :
              ChatRequest(r, c, skills, Auto, accepted)
        \/ ResponseSent(r)
        \/ BackgroundGenerateTitle(r)
        \/ BackgroundStopSandbox(r)
    \/ \E S \in SUBSET Skills : SetSkillPermissions(S)

SpecSandbox == Init /\ [][NextSandbox]_vars

\* Requests of the owner and of another user on one conversation.
NextChatOwner ==
    \E r \in Requests :
        \/ \E user_id \in Users, skills \in {Auto} \cup {Only({sk}) : sk \in Skills},
              accepted \in BOOLEAN :
              ChatRequestBy(r, user_id, skills, accepted)
        \/ ResponseSent(r)
        \/ BackgroundGenerateTitle(r)
        \/ BackgroundStopSandbox(r)

SpecChatOwner == Init /\ [][NextChatOwner]_vars

\* One request at a time with any skill selection, while the skill
\* permissions change.
NextSkills ==
    \/ \E skills \in Selections(Skills), accepted \in BOOLEAN :
          ChatRequest(1, 1, skills, Auto, accepted)
    \/ ResponseSent(1)
    \/ BackgroundGenerateTitle(1)
    \/ BackgroundStopSandbox(1)
    \/ \E S \in SUBSET Skills : SetSkillPermissions(S)

SpecSkills == Init /\ [][NextSkills]_vars

\* Requests with MCP tool selections on one conversation, while the tool
\* grants and the active MCP servers change.
NextTools ==
    \/ \E r \in Requests :
        \/ \E mcp_tools \in Selections(McpTools), accepted \in BOOLEAN :
              ChatRequest(r, 1, Auto, mcp_tools, accepted)
        \/ ResponseSent(r)
        \/ BackgroundGenerateTitle(r)
        \/ BackgroundStopSandbox(r)
    \/ \E S \in SUBSET McpTools : SetToolGrants(S)
    \/ \E S \in SUBSET McpTools : SetActiveMcpTools(S)

SpecTools == Init /\ [][NextTools]_vars

\* Requests on one conversation whose responses stream text, and their title
\* tasks.
NextTitle ==
    \E r \in Requests :
        \/ \E accepted \in BOOLEAN : ChatRequest(r, 1, Auto, Auto, accepted)
        \/ \E content \in TextChunks : ForwardTextFrame(r, content)
        \/ ResponseSent(r)
        \/ BackgroundGenerateTitle(r)
        \/ \E output \in RawTitles : GenerateTitleAnswered(r, output)
        \/ GenerateTitleFailed(r)
        \/ BackgroundStopSandbox(r)

SpecTitle == Init /\ [][NextTitle]_vars

(***************************************************************************)
(* MCPServerService and load_mcp_config_from_db                            *)
(***************************************************************************)
\* hashlib.md5(json.dumps(config, sort_keys=True)): equal for equal configs
Md5(config) == [md5 |-> TRUE, of |-> config]

\* the entry load_mcp_config_from_db builds for a server
ServerConfig(server) ==
    IF server.transport_type = "stdio"
    THEN IF server.env # NullName
         THEN [command |-> server.command, args |-> <<>>, env |-> server.env]
         ELSE [command |-> server.command, args |-> <<>>]
    ELSE [url |-> server.url, transport |-> server.transport_type]

\* the config built from the table: the active servers, a stdio server only
\* with a command, an http or sse server only with a url; {} when there is none
NewConfig(servers) ==
    LET named == {n \in DOMAIN servers :
                    /\ servers[n].is_active
                    /\ IF servers[n].transport_type = "stdio"
                       THEN servers[n].command # NullName
                       ELSE servers[n].url # NullName}
    IN IF named = {} THEN EmptyConfig ELSE [n \in named |-> ServerConfig(servers[n])]

\* a service that forgets to invalidate
InvalidateConfigCache_Skipped(cache, hash) == [cache |-> cache, hash |-> hash]

\* invalidate_config_cache()
InvalidateConfigCache(cache, hash) == [cache |-> EmptyConfig, hash |-> NoHash]

\* load_mcp_config_from_db(force_refresh)
LoadMcpConfigFromDb(force_refresh) ==
    /\ IF ~force_refresh /\ config_cache # EmptyConfig
       THEN /\ last_loaded' = Loaded(config_cache)
            /\ UNCHANGED <<config_cache, config_hash>>
       ELSE LET new_config == NewConfig(mcp_servers)
                new_hash == Md5(new_config)
            IN /\ IF new_hash # config_hash
                  THEN config_cache' = new_config /\ config_hash' = new_hash
                  ELSE UNCHANGED <<config_cache, config_hash>>
               /\ last_loaded' = Loaded(config_cache')
    /\ UNCHANGED <<mcp_servers, appVars>>

\* the commit of a change of the table, followed by the invalidation
CommitServers(servers) ==
    LET inv == InvalidateConfigCache(config_cache, config_hash) IN
    /\ mcp_servers' = servers
    /\ config_cache' = inv.cache
    /\ config_hash' = inv.hash
    /\ last_loaded' = NotLoaded

\* MCPServerService.create_server: ValueError for a name that exists, for a
\* stdio server without command, for an http or sse server without url
CreateServer(name, server_data) ==
    /\ IF \/ name \in DOMAIN mcp_servers
          \/ server_data.transport_type = "stdio" /\ server_data.command = NullName
          \/ server_data.transport_type # "stdio" /\ server_data.url = NullName
       THEN UNCHANGED mcpVars
       ELSE CommitServers([n \in DOMAIN mcp_servers \cup {name} |->
                              IF n = name THEN server_data ELSE mcp_servers[n]])
    /\ UNCHANGED appVars

\* the updates of one column a client can put: of a text column, of is_active
TextUpdates ==
    {[key |-> "name", value |-> n] : n \in ServerNames}
        \cup {[key |-> "transport_type", value |-> tt] : tt \in TransportTypes}
        \cup {[key |-> "command", value |-> c] : c \in Commands}
        \cup {[key |-> "url", value |-> u] : u \in Urls}
        \cup {[key |-> "env", value |-> e] : e \in Envs}
ActiveUpdates == {[key |-> "is_active", value |-> a] : a \in BOOLEAN}

\* MCPServerService.update_server: ValueError for an unknown server and for a
\* new name that is taken; no check of the transport's fields
UpdateServer(server_name, update) ==
    /\ IF server_name \notin DOMAIN mcp_servers
       THEN UNCHANGED mcpVars
       ELSE IF update.key = "name"
       THEN IF update.value # server_name /\ update.value \in DOMAIN mcp_servers
            THEN UNCHANGED mcpVars
            ELSE CommitServers([n \in (DOMAIN mcp_servers \ {server_name}) \cup {update.value} |->
                                   IF n = update.value THEN mcp_servers[server_name]
                                   ELSE mcp_servers[n]])
       ELSE CommitServers([mcp_servers EXCEPT ![server_name][update.key] = update.value])
    /\ UNCHANGED appVars

\* MCPServerService.delete_server: is_active = False, or the row is deleted
DeleteServer(server_name, soft_delete) ==
    /\ IF server_name \notin DOMAIN mcp_servers
       THEN UNCHANGED mcpVars
       ELSE IF soft_delete
       THEN CommitServers([mcp_servers EXCEPT ![server_name].is_active = FALSE])
       ELSE CommitServers([n \in DOMAIN mcp_servers \ {server_name} |-> mcp_servers[n]])
    /\ UNCHANGED appVars

\* Administrators change the registry while agents are created.
NextMcp ==
    \/ \E name \in ServerNames, server_data \in ServerData : CreateServer(name, server_data)
    \/ \E name \in ServerNames :
        \/ \E update \in TextUpdates : UpdateServer(name, update)
        \/ \E update \in ActiveUpdates : UpdateServer(name, update)
    \/ \E name \in ServerNames, soft_delete \in BOOLEAN : DeleteServer(name, soft_delete)
    \/ \E force_refresh \in BOOLEAN : LoadMcpConfigFromDb(force_refresh)

SpecMcp == Init /\ [][NextMcp]_vars

(***************************************************************************)
(* Properties of the turn engine (specification Spec)                      *)
(***************************************************************************)
Ended(t) == pc[t] \in {"done", "failed", "cancelled"}

ModelRowsCalling(id) ==
    {j \in DOMAIN messages :
        /\ messages[j].role = "model"
        /\ \E k \in DOMAIN messages[j].tool_calls :
              messages[j].tool_calls[k].tool_call_id = id}

\* C1: every persisted tool-return row comes after a model row that lists its
\* tool_call_id: that model row was committed earlier and has a strictly
\* smaller step_order. It holds in every state, so also after turns that were
\* cut short at any point.
C1_ToolReturnFollowsItsCall ==
    \A i \in DOMAIN messages :
        messages[i].role = "tool-return" =>
            \E j \in ModelRowsCalling(messages[i].tool_call_id) :
                /\ j < i
                /\ messages[j].step_order < messages[i].step_order

\* C1 witness: a turn that was cut short has committed a tool-return row.
C1_Witness ==
    \E t \in Turns :
        /\ pc[t] \in {"failed", "cancelled"}
        /\ \E i \in DOMAIN persisted[t] : persisted[t][i].role = "tool-return"

\* C2: no two rows of the conversation share a step_order, and in commit
\* order the step_order values go up by exactly one (strictly increasing, no
\* gaps), also when two turns overlap.
C2_StepOrderUniqueAndGapFree ==
    /\ \A i, j \in DOMAIN messages :
          i # j => messages[i].step_order # messages[j].step_order
    /\ \A i \in DOMAIN messages :
          i > 1 => messages[i].step_order = messages[i - 1].step_order + 1

\* C4: every tool_result frame a client receives was preceded, in the same
\* turn, by a tool_call frame with the same tool_call_id.
C4_ToolResultFrameAnnounced ==
    \A t \in Turns : \A i \in DOMAIN frames[t] :
        frames[t][i].type = "tool_result" =>
            \E j \in 1..(i - 1) :
                /\ frames[t][j].type = "tool_call"
                /\ frames[t][j].tool_call_id = frames[t][i].tool_call_id

\* C4 witness: a client has received a tool_result frame.
C4_Witness ==
    \E t \in Turns : \E i \in DOMAIN frames[t] : frames[t][i].type = "tool_result"

\* The frames of a turn whose events chat_stream has handled to the end: the
\* error frame is no event, and the last tool_result frame is left out while
\* the generator still stands at its yield.
Handled(t) ==
    LET F == SelectSeq(frames[t], LAMBDA f : f.type # "error") IN
    IF event[t] # NullId THEN SubSeq(F, 1, Len(F) - 1) ELSE F

IsResult(H, i) == H[i].type = "tool_result"
IsCall(H, i) == H[i].type = "tool_call"
\* the first result of a batch: the event before it is a tool call
FirstOfBatch(H, i) == IsResult(H, i) /\ i > 1 /\ IsCall(H, i - 1)
NumResults(H, i) == Cardinality({j \in 1..i : IsResult(H, j)})
NumFirst(H, i) == Cardinality({j \in 1..i : FirstOfBatch(H, j)})
\* where the tool-return row of the result event i stands among the turn's rows
RowPos(H, i) == 1 + NumResults(H, i) + NumFirst(H, i)
\* the first call event of the batch that ends right before event i
BatchStart(H, i) ==
    CHOOSE a \in 1..(i - 1) :
        /\ \A j \in a..(i - 1) : IsCall(H, j)
        /\ a = 1 \/ ~IsCall(H, a - 1)
CallsOf(H, a, b) ==
    [k \in 1..(b - a + 1) |->
        [name |-> H[a + k - 1].tool_name, tool_call_id |-> H[a + k - 1].tool_call_id]]
\* the text streamed after the last result event before position hi
LastResultBefore(H, hi) ==
    IF \E j \in 1..(hi - 1) : IsResult(H, j)
    THEN Max({j \in 1..(hi - 1) : IsResult(H, j)}) ELSE 0
RECURSIVE TextIn(_, _, _)
TextIn(H, lo, hi) ==
    IF lo >= hi THEN <<>>
    ELSE (IF H[lo].type = "text" THEN H[lo].content ELSE <<>>) \o TextIn(H, lo + 1, hi)
TextSince(H, hi) == TextIn(H, LastResultBefore(H, hi) + 1, hi)
\* the text streamed after the last result event of the turn
TrailingText(H) == TextSince(H, Len(H) + 1)

\* C7: for a batch of tool calls, one model row is written when the first
\* result arrives; it carries all calls of the batch in call order and the
\* text accumulated so far; the tool-return rows follow in result order;
\* later results of the batch add no model row; text streamed afterwards goes
\* into one separate final model row; the turn writes no other row.
C7_OneModelRowPerBatch ==
    \A t \in Turns : pc[t] # "idle" =>
        LET H == Handled(t)
            P == persisted[t]
            final == pc[t] = "done" /\ TrailingText(H) # <<>>
        IN
        /\ Len(P) = 1 + NumResults(H, Len(H)) + NumFirst(H, Len(H))
                      + (IF final THEN 1 ELSE 0)
        /\ \A k \in DOMAIN P : P[k].step_order = P[1].step_order + k - 1
        /\ \A i \in DOMAIN H : IsResult(H, i) =>
              LET pos == RowPos(H, i) IN
              /\ P[pos].role = "tool-return"
              /\ P[pos].tool_call_id = H[i].tool_call_id
              /\ IF FirstOfBatch(H, i)
                 THEN /\ P[pos - 1].role = "model"
                      /\ P[pos - 1].tool_calls = CallsOf(H, BatchStart(H, i), i - 1)
                      /\ P[pos - 1].content = TextSince(H, BatchStart(H, i))
                 ELSE P[pos - 1].role = "tool-return"
        /\ final =>
              /\ P[Len(P)].role = "model"
              /\ P[Len(P)].tool_calls = <<>>
              /\ P[Len(P)].content = TrailingText(H)

\* C7 witness: a completed turn whose model response streamed text, issued
\* two tool calls before the first result, and streamed text after the results.
C7_Witness ==
    \E t \in Turns :
        /\ pc[t] = "done"
        /\ LET H == Handled(t) IN
           /\ Len(H) = 6
           /\ H[1].type = "text" /\ IsCall(H, 2) /\ IsCall(H, 3)
           /\ IsResult(H, 4) /\ IsResult(H, 5) /\ H[6].type = "text"

\* C10: once a turn has ended (normally, by a stream error or by
\* cancellation), every tool call listed in a model row it persisted has a
\* tool-return row with the same tool_call_id and a greater step_order.
C10_EveryToolCallHasReturn ==
    \A t \in Turns : Ended(t) =>
        \A i \in DOMAIN persisted[t] :
            \A k \in DOMAIN persisted[t][i].tool_calls :
                \E j \in DOMAIN messages :
                    /\ messages[j].role = "tool-return"
                    /\ messages[j].tool_call_id = persisted[t][i].tool_calls[k].tool_call_id
                    /\ messages[j].step_order > persisted[t][i].step_order

(***************************************************************************)
(* Properties of the todos (specification SpecTodo)                        *)
(***************************************************************************)
InProgress(todos) == Cardinality({i \in DOMAIN todos : todos[i].status = "in_progress"})

\* C8: the todo list of a conversation, in the deps of a turn and in the
\* saved conversation state, never holds more than one in_progress item
\* (write_todos and update_todos reject a list with two or more).
C8_AtMostOneInProgress ==
    /\ InProgress(state_todos) <= 1
    /\ \A t \in Turns : InProgress(deps_todos[t]) <= 1

(***************************************************************************)
(* Properties of the chat endpoint (SpecTools, SpecSandbox, SpecTitle)     *)
(***************************************************************************)
\* get_user_tool_permissions: the active MCP tools granted to the user
PermittedTools(grants, active) == {tl \in active : tl \in grants}
\* the MCP tools a selection names, "auto" naming all of them
Selected(mcp_tools) == IF mcp_tools.auto THEN McpTools ELSE mcp_tools.names
Begins(r) == request[r].status = "none" /\ request'[r].status = "streaming"

SandboxesOf(c) == {i \in DOMAIN sandboxes : sandboxes[i].conversation_id = c}

NoTurnRunning == \A t \in Turns : pc[t] \notin {"streaming", "yield_result"}
CallIds(calls) == {calls[i].tool_call_id : i \in DOMAIN calls}

\* user -> (model with tool calls -> one tool-return per call)* -> model with
\* the final text, repeated; open: a turn has begun and not yet closed,
\* pending: the calls of the last model row that still lack their return
RECURSIVE Alternates(_, _, _)
Alternates(rows, open, pending) ==
    IF rows = <<>> THEN ~open
    ELSE LET row == Head(rows) IN
         IF ~open THEN row.role = "user" /\ Alternates(Tail(rows), TRUE, {})
         ELSE IF pending # {}
              THEN /\ row.role = "tool-return"
                   /\ row.tool_call_id \in pending
                   /\ Alternates(Tail(rows), TRUE, pending \ {row.tool_call_id})
              ELSE /\ row.role = "model"
                   /\ IF row.tool_calls # <<>>
                      THEN Alternates(Tail(rows), TRUE, CallIds(row.tool_calls))
                      ELSE Alternates(Tail(rows), FALSE, {})

\* C11: whenever no turn is running, the rows read back in step_order form
\* the alternation user, groups of (model with calls, one tool-return per
\* call), model with the final text.
C11_HistoryAlternates ==
    NoTurnRunning => Alternates(OrderByStepOrder(messages), FALSE, {})

(***************************************************************************)
(* Properties of the ownership check (specification SpecOwner)             *)
(***************************************************************************)
\* C12: a call made for a user who does not own the conversation is answered
\* with not-found, and leaves the message rows, the title and the saved state
\* as they were.
C12_NonOwnerNotFound ==
    [][\A user_id \in Users \ {ConversationUserId} :
          reply' # reply /\ reply'.user_id = user_id =>
             /\ ~reply'.found
             /\ messages' = messages
             /\ title' = title
             /\ state_todos' = state_todos]_vars

\* every operation has been refused to the other user, while the
\* conversation holds rows and todos of its owner
C12_Witness ==
    /\ reply.user_id # ConversationUserId
    /\ reply.op = "update_todos"
    /\ ~reply.found
    /\ messages # <<>>
    /\ state_todos # <<>>
    /\ \E t \in Turns : pc[t] = "failed" /\ frames[t] = <<ErrorFrame>>

\* the message the events behind a row of turn t amount to
MessageOfEvents(t, row) ==
    IF row.role = "user" THEN ModelRequest(<<UserPromptPart(UserMessage(t))>>)
    ELSE IF row.role = "model"
    THEN ModelResponse(
            (IF row.content # <<>> THEN <<TextPart(row.content)>> ELSE <<>>)
            \o [i \in DOMAIN row.tool_calls |->
                   ToolCallPart(row.tool_calls[i].name, row.tool_calls[i].tool_call_id)])
    ELSE ModelRequest(<<ToolReturnPart(ToolNameFor(tool_names[t], row.tool_call_id),
                                       ResultOf(row.tool_call_id), row.tool_call_id)>>)

\* C13: for a completed turn, get_history of the rows it persisted gives, row
\* by row, the request or response the events amounted to: the user prompt,
\* the text and the calls of each response, and for each tool result its
\* tool name, tool_call_id and result content.
C13_HistoryRoundTrip ==
    \A t \in Turns :
        pc[t] = "done" =>
            GetHistory(persisted[t]) =
                [i \in DOMAIN persisted[t] |-> MessageOfEvents(t, persisted[t][i])]

(***************************************************************************)
(* Properties of failing turns (specification Spec)                        *)
(***************************************************************************)
ErrorFrames(t) == {i \in DOMAIN frames[t] : frames[t][i].type = "error"}

\* C14: a turn that failed has sent exactly one error frame, as the last
\* frame of its response, and every row it had committed is still stored.
C14_OneTerminalErrorFrame ==
    \A t \in Turns :
        pc[t] = "failed" =>
            /\ ErrorFrames(t) = {Len(frames[t])}
            /\ \A i \in DOMAIN persisted[t] :
                  \E j \in DOMAIN messages : messages[j] = persisted[t][i]

\* a turn failed after a tool call had been answered and stored
C14_Witness ==
    \E t \in Turns :
        /\ pc[t] = "failed"
        /\ Len(persisted[t]) >= 3
        /\ Len(frames[t]) >= 3

\* the text of the model rows among rows
RECURSIVE RowsText(_)
RowsText(rows) ==
    IF rows = <<>> THEN <<>>
    ELSE (IF Head(rows).role = "model" THEN Head(rows).content ELSE <<>>)
         \o RowsText(Tail(rows))

\* C15: a turn ended by a stream error or by a disconnect has persisted what
\* it had accumulated: the text it streamed is in its model rows, every tool
\* call it announced is in a model row, and every tool-return row has its
\* model row.
C15_PendingFlushFinalized ==
    \A t \in Turns :
        pc[t] \in {"failed", "cancelled"} =>
            /\ RowsText(persisted[t]) = TextIn(frames[t], 1, Len(frames[t]) + 1)
            /\ \A i \in DOMAIN frames[t] :
                  frames[t][i].type = "tool_call" =>
                      ModelRowsCalling(frames[t][i].tool_call_id) # {}
            /\ \A j \in DOMAIN persisted[t] :
                  persisted[t][j].role = "tool-return" =>
                      ModelRowsCalling(persisted[t][j].tool_call_id) # {}

(***************************************************************************)
(* Properties of the MCP config cache (specification SpecMcp)              *)
(***************************************************************************)
\* the servers a config must name
Configured(servers) ==
    {n \in DOMAIN servers :
        /\ servers[n].is_active
        /\ \/ servers[n].transport_type = "stdio" /\ servers[n].command # NullName
           \/ servers[n].transport_type \in {"http", "sse"} /\ servers[n].url # NullName}

\* C16: the config a load returns names exactly the active servers that have
\* the field their transport needs, with the columns as they are now: a config
\* cached before the last change of the servers is never returned.
C16_LoadedConfigIsCurrent ==
    last_loaded.loaded =>
        /\ DOMAIN last_loaded.config = Configured(mcp_servers)
        /\ \A n \in Configured(mcp_servers) :
              LET entry == last_loaded.config[n]
                  server == mcp_servers[n]
              IN IF server.transport_type = "stdio"
                 THEN /\ entry.command = server.command
                      /\ ("env" \in DOMAIN entry) = (server.env # NullName)
                      /\ "env" \in DOMAIN entry => entry.env = server.env
                      /\ DOMAIN entry \subseteq {"command", "args", "env"}
                 ELSE /\ DOMAIN entry = {"url", "transport"}
                      /\ entry.url = server.url
                      /\ entry.transport = server.transport_type

\* a config was loaded from a filled cache while one server is deactivated
\* and another is served
C16_Witness ==
    /\ last_loaded.loaded
    /\ config_cache # EmptyConfig
    /\ config_hash = Md5(config_cache)
    /\ DOMAIN mcp_servers = ServerNames
    /\ ~mcp_servers["srv_a"].is_active
    /\ DOMAIN last_loaded.config = {"srv_b"}

nonPermVars == <<turnVars, todoVars, permitted_skills, tool_grants, active_mcp_tools,
                 sandbox_manager, sandboxes, request, title, reply, mcpVars,
                 laterVars>>

\* src/models/__init__.py: the names the package exports
ModelsExported ==
    {"McpServer", "Skill", "RoleToolPermission", "RoleSkillPermission",
     "DepartmentToolPermission", "DepartmentSkillPermission", "TransportType",
     "User", "Role", "Department", "Menu", "Button", "RoleMenu", "RoleButton",
     "user_role", "Conversation", "Message", "LLMModelConfig",
     "RoleModelPermission", "DepartmentModelPermission"}

\* from src.models import ...: ImportError unless every name is exported
ImportFromModels(names) == names \subseteq ModelsExported

\* the try block of get_user_tool_permissions: the names it returns, and
\* whether it gets as far as writing them to Redis.  An exception, and a user
\* that is not found, return set() before setex.
NoNames == [setex |-> FALSE, names |-> {}]
QueryToolNames(user_id) ==
    IF ~ImportFromModels({"McpTool", "RoleToolPermission", "User",
                          "DepartmentToolPermission"})
    THEN NoNames
    ELSE IF user_id \notin DOMAIN users
    THEN NoNames
    ELSE LET user == users[user_id]
             role_permissions ==
                 {p \in role_tool_permissions : p.role_id \in user.roles /\ p.can_use}
             tool_ids == {p.tool_id : p \in role_permissions}
             dept_restrictions ==
                 {r \in department_tool_permissions :
                     r.department_id = user.department_id /\ ~r.is_allowed}
             blocked_tool_ids == {r.tool_id : r \in dept_restrictions}
             remaining_ids == IF user.department_id # NoDepartment
                              THEN tool_ids \ blocked_tool_ids
                              ELSE tool_ids
             tools == IF user.is_admin
                      THEN mcp_tool_table
                      ELSE {t \in mcp_tool_table : t \in remaining_ids}
         IN  [setex |-> TRUE, names |-> {McpToolName(t) : t \in tools}]

\* get_user_tool_permissions(user_id, deps): the names returned, whether the
\* database was asked, and the Redis entry afterwards.  An entry that is
\* present is a non-empty JSON text, "[]" included, so it is returned as it is.
UserToolPermissions(user_id, redis_available) ==
    IF user_id = NoUserId
    THEN [names |-> {}, cache_miss |-> FALSE, cache |-> redis_cache]
    ELSE IF redis_available /\ redis_cache.cached
    THEN [names |-> redis_cache.names, cache_miss |-> FALSE, cache |-> redis_cache]
    ELSE LET q == QueryToolNames(user_id)
         IN  [names |-> q.names, cache_miss |-> TRUE,
              cache |-> IF q.setex /\ redis_available
                        THEN Cached(q.names)
                        ELSE redis_cache]

\* name.startswith(prefix), name.startswith(tuple of prefixes)
StartsWith(name, prefix) ==
    /\ Len(prefix) <= Len(name)
    /\ SubSeq(name, 1, Len(prefix)) = prefix
StartsWithAny(name, prefixes) == \E prefix \in prefixes : StartsWith(name, prefix)

\* filter_tools_by_permission once the permitted set is known
FilterToolDefs(user_id, permitted_mcp_tools, tool_defs) ==
    LET Keep(name) == \/ StartsWithAny(name, BUILTIN_TOOL_PREFIXES)
                      \/ name \in permitted_mcp_tools
    IN  IF user_id = NoUserId
        THEN tool_defs
        ELSE IF permitted_mcp_tools = {}
        THEN tool_defs
        ELSE SelectSeq(tool_defs, Keep)

\* the definitions prepare_tools is handed: the built-in tools, then the tools
\* of the MCP toolset
McpToolDefLists ==
    {<<>>, <<Name_tool_x>>, <<Name_tool_y>>, <<Name_execute_sql>>,
     <<Name_tool_x, Name_tool_y>>, <<Name_tool_x, Name_execute_sql>>,
     <<Name_tool_y, Name_execute_sql>>, McpToolDefs}
ToolDefLists == {BuiltinToolNames \o defs : defs \in McpToolDefLists}

GetUserToolPermissions(user_id, redis_available) ==
    LET r == UserToolPermissions(user_id, redis_available)
    IN  /\ redis_cache' = r.cache
        /\ tool_reply' = [op |-> "get_user_tool_permissions", user_id |-> user_id,
                          cache_miss |-> r.cache_miss, tool_defs |-> <<>>,
                          permitted |-> r.names, out |-> <<>>]
        /\ UNCHANGED <<nonPermVars, users, role_tool_permissions,
                       department_tool_permissions, mcp_tool_table>>

FilterToolsByPermission(user_id, tool_defs, redis_available) ==
    LET r == UserToolPermissions(user_id, redis_available)
    IN  /\ redis_cache' = r.cache
        /\ tool_reply' = [op |-> "filter_tools_by_permission", user_id |-> user_id,
                          cache_miss |-> r.cache_miss, tool_defs |-> tool_defs,
                          permitted |-> r.names,
                          out |-> FilterToolDefs(user_id, r.names, tool_defs)]
        /\ UNCHANGED <<nonPermVars, users, role_tool_permissions,
                       department_tool_permissions, mcp_tool_table>>

\* the tables change (administration); what was returned before is stale
SetUser(row) ==
    /\ users' = <<row>>
    /\ tool_reply' = NoToolReply
    /\ UNCHANGED <<nonPermVars, role_tool_permissions, department_tool_permissions,
                   mcp_tool_table, redis_cache>>

DeleteUser ==
    /\ users # <<>>
    /\ users' = <<>>
    /\ tool_reply' = NoToolReply
    /\ UNCHANGED <<nonPermVars, role_tool_permissions, department_tool_permissions,
                   mcp_tool_table, redis_cache>>

SetRoleToolPermissions(rows) ==
    /\ role_tool_permissions' = rows
    /\ tool_reply' = NoToolReply
    /\ UNCHANGED <<nonPermVars, users, department_tool_permissions, mcp_tool_table,
                   redis_cache>>

SetDepartmentToolPermissions(rows) ==
    /\ department_tool_permissions' = rows
    /\ tool_reply' = NoToolReply
    /\ UNCHANGED <<nonPermVars, users, role_tool_permissions, mcp_tool_table,
                   redis_cache>>

SetMcpToolsActive(ids) ==
    /\ mcp_tool_table' = ids
    /\ tool_reply' = NoToolReply
    /\ UNCHANGED <<nonPermVars, users, role_tool_permissions,
                   department_tool_permissions, redis_cache>>

\* the Redis entry: set by another writer of the key, or expired (TTL 300 s)
RedisSet(names) ==
    /\ redis_cache' = Cached(names)
    /\ UNCHANGED <<nonPermVars, users, role_tool_permissions,
                   department_tool_permissions, mcp_tool_table, tool_reply>>

RedisExpire ==
    /\ redis_cache.cached
    /\ redis_cache' = NoCache
    /\ UNCHANGED <<nonPermVars, users, role_tool_permissions,
                   department_tool_permissions, mcp_tool_table, tool_reply>>

NextPermissions ==
    \/ \E user_id \in UserIds, redis_available \in BOOLEAN :
          GetUserToolPermissions(user_id, redis_available)
    \/ \E row \in UserRows : SetUser(row)
    \/ DeleteUser
    \/ \E rows \in RowSets(RoleToolPermissionRows) : SetRoleToolPermissions(rows)
    \/ \E rows \in RowSets(DepartmentToolPermissionRows) :
          SetDepartmentToolPermissions(rows)
    \/ \E ids \in SUBSET ToolIds : SetMcpToolsActive(ids)
    \/ \E names \in SUBSET {Name_tool_x, Name_tool_y} : RedisSet(names)
    \/ RedisExpire

SpecPermissions == Init /\ [][NextPermissions]_vars

\* agent.run returns: the turn whose LLM calls prepared the tools is over
AgentRunEnds ==
    /\ tool_reply.op = "filter_tools_by_permission"
    /\ tool_reply' = NoToolReply
    /\ UNCHANGED <<nonPermVars, users, role_tool_permissions,
                   department_tool_permissions, mcp_tool_table, redis_cache>>

NextFilter ==
    \/ \E user_id \in UserIds, tool_defs \in ToolDefLists, redis_available \in BOOLEAN :
          FilterToolsByPermission(user_id, tool_defs, redis_available)
    \/ AgentRunEnds
    \/ \E names \in SUBSET {Name_tool_x, Name_tool_y} : RedisSet(names)
    \/ RedisExpire

SpecFilter == Init /\ [][NextFilter]_vars

(***************************************************************************)
(* Properties of the permitted tools (specification SpecPermissions)       *)
(***************************************************************************)
\* the tools the roles and the department of the user leave, among the active
\* ones
GrantedByRole(user, tool_id) ==
    \E p \in role_tool_permissions :
        p.role_id \in user.roles /\ p.tool_id = tool_id /\ p.can_use
BlockedByDepartment(user, tool_id) ==
    \E r \in department_tool_permissions :
        /\ r.department_id = user.department_id
        /\ r.tool_id = tool_id
        /\ ~r.is_allowed
ToolsOfUser(user) ==
    IF user.is_admin
    THEN {McpToolName(t) : t \in mcp_tool_table}
    ELSE {McpToolName(t) :
             t \in {i \in mcp_tool_table :
                       GrantedByRole(user, i) /\ ~BlockedByDepartment(user, i)}}

\* C18: on a cache miss get_user_tool_permissions returns every active tool
\* for an admin, and otherwise exactly the active tools that a role of the
\* user grants with can_use and that the user's department has not blocked.
C18_PermissionsOnCacheMiss ==
    (/\ tool_reply.op = "get_user_tool_permissions"
     /\ tool_reply.cache_miss
     /\ users # <<>>)
        => tool_reply.permitted = ToolsOfUser(users[1])

(***************************************************************************)
(* Properties of the permission filter (specification SpecFilter)          *)
(***************************************************************************)
NamesIn(tool_defs) == {tool_defs[i] : i \in DOMAIN tool_defs}

C20_OthersKeptIffPermitted ==
    (/\ tool_reply.op = "filter_tools_by_permission"
     /\ tool_reply.user_id # NoUserId)
        => \A name \in NamesIn(tool_reply.tool_defs) \ NamesIn(BuiltinToolNames) :
              name \in NamesIn(tool_reply.out) <=> name \in tool_reply.permitted

\* the try block of get_user_tool_permissions raises: its import names a model
\* that src.models does not export
RepositoryFails ==
    ~ImportFromModels({"McpTool", "RoleToolPermission", "User",
                       "DepartmentToolPermission"})

\* C21: when the repository fails while the tool permissions of the user are
\* resolved, the resolver returns the empty set, and the filter then hands the
\* LLM no MCP tool while every built-in tool stays.
C21_FailureLeavesBuiltinsOnly ==
    (/\ tool_reply.op = "filter_tools_by_permission"
     /\ tool_reply.user_id # NoUserId
     /\ tool_reply.cache_miss
     /\ RepositoryFails)
        => /\ tool_reply.permitted = {}
           /\ NamesIn(tool_reply.out) \cap NamesIn(McpToolDefs) = {}
           /\ \A name \in NamesIn(BuiltinToolNames) :
                 name \in NamesIn(tool_reply.tool_defs)
                     => name \in NamesIn(tool_reply.out)

(***************************************************************************)
(* Skill permissions: get_user_skill_permissions, filter_skills_by_        *)
(* permission, SkillService                                                *)
(***************************************************************************)
\* everything but table users and the skill permission state
nonSkillVars == <<turnVars, todoVars, permitted_skills, tool_grants, active_mcp_tools,
                  sandbox_manager, sandboxes, request, title, reply, mcpVars,
                  role_tool_permissions, department_tool_permissions, mcp_tool_table,
                  redis_cache, restVars>>

\* the try block of get_user_skill_permissions (every name it imports is
\* exported)
QuerySkillNames(user_id) ==
    IF ~ImportFromModels({"Skill", "RoleSkillPermission", "User",
                          "DepartmentSkillPermission"})
    THEN NoNames
    ELSE IF user_id \notin DOMAIN users
    THEN NoNames
    ELSE LET user == users[user_id]
             role_permissions ==
                 {p \in role_skill_permissions : p.role_id \in user.roles /\ p.can_use}
             skill_ids == {p.skill_id : p \in role_permissions}
             dept_restrictions ==
                 {r \in department_skill_permissions :
                     r.department_id = user.department_id /\ ~r.is_allowed}
             blocked_skill_ids == {r.skill_id : r \in dept_restrictions}
             remaining_ids == IF user.department_id # NoDepartment
                              THEN skill_ids \ blocked_skill_ids
                              ELSE skill_ids
         IN  [setex |-> TRUE,
              names |-> IF user.is_admin
                        THEN skill_table
                        ELSE {sk \in skill_table : sk \in remaining_ids}]

\* get_user_skill_permissions(user_id, deps)
UserSkillPermissions(user_id, redis_available) ==
    IF user_id = NoUserId
    THEN [names |-> {}, cache_miss |-> FALSE, cache |-> skill_cache]
    ELSE IF redis_available /\ skill_cache.cached
    THEN [names |-> skill_cache.names, cache_miss |-> FALSE, cache |-> skill_cache]
    ELSE LET q == QuerySkillNames(user_id)
         IN  [names |-> q.names, cache_miss |-> TRUE,
              cache |-> IF q.setex /\ redis_available
                        THEN Cached(q.names)
                        ELSE skill_cache]

\* a variant that shows every skill when the permitted set is empty
FilterSkills_FailOpen(user_id, permitted, skills) ==
    LET Permitted(skill) == skill.name \in permitted
    IN  IF user_id = NoUserId \/ permitted = {}
        THEN skills
        ELSE SelectSeq(skills, Permitted)

\* filter_skills_by_permission once the permitted set is known
FilterSkills(user_id, permitted, skills) ==
    LET Permitted(skill) == skill.name \in permitted
    IN  IF user_id = NoUserId
        THEN skills
        ELSE SelectSeq(skills, Permitted)

\* loaded_skills: the skills found on disk, one of them in no row of the table
SkillLists ==
    {<<>>, <<[name |-> "pdf"]>>, <<[name |-> "pdf"], [name |-> "xlsx"]>>,
     <<[name |-> "xlsx"], [name |-> "pdf"]>>,
     <<[name |-> "docx"], [name |-> "xlsx"], [name |-> "pdf"]>>}

GetUserSkillPermissions(user_id, redis_available) ==
    LET r == UserSkillPermissions(user_id, redis_available)
    IN  /\ skill_cache' = r.cache
        /\ skill_reply' = [op |-> "get_user_skill_permissions", user_id |-> user_id,
                           cache_miss |-> r.cache_miss, raised |-> FALSE,
                           skills |-> <<>>, permitted |-> r.names, out |-> <<>>]
        /\ UNCHANGED <<nonSkillVars, users, tool_reply, role_skill_permissions,
                       department_skill_permissions, skill_table>>

FilterSkillsByPermission(user_id, skills, redis_available) ==
    LET r == UserSkillPermissions(user_id, redis_available)
        asked == user_id # NoUserId
    IN  /\ skill_cache' = IF asked THEN r.cache ELSE skill_cache
        /\ skill_reply' = [op |-> "filter_skills_by_permission", user_id |-> user_id,
                           cache_miss |-> asked /\ r.cache_miss, raised |-> FALSE,
                           skills |-> skills, permitted |-> r.names,
                           out |-> FilterSkills(user_id, r.names, skills)]
        /\ UNCHANGED <<nonSkillVars, users, tool_reply, role_skill_permissions,
                       department_skill_permissions, skill_table>>

\* the attributes of a User row (src/models/user_management.py)
UserAttributes ==
    {"id", "username", "email", "full_name", "phone", "avatar", "hashed_password",
     "is_active", "is_admin", "password_reset_required", "department_id",
     "department", "roles", "conversations", "created_at", "updated_at"}

\* SkillService.get_allowed_skill_names(user_id): [] when the user is not
\* found; otherwise it reads user.role_id, which raises AttributeError unless
\* the row has that attribute, and lines 300-335 are not reached.
GetAllowedSkillNames(user_id) ==
    /\ skill_reply' =
          [op |-> "get_allowed_skill_names", user_id |-> user_id,
           cache_miss |-> FALSE,
           raised |-> user_id \in DOMAIN users /\ "role_id" \notin UserAttributes,
           skills |-> <<>>, permitted |-> {}, out |-> <<>>]
    /\ UNCHANGED <<nonSkillVars, users, tool_reply, role_skill_permissions,
                   department_skill_permissions, skill_table, skill_cache>>

\* SkillService.add_role_permission: the row of (role, skill) is updated, or
\* added; nothing is done for an unknown skill.  No cache entry is touched.
AddRolePermission(skill_name, role_id, can_use) ==
    LET existing == {p \in role_skill_permissions :
                        p.role_id = role_id /\ p.skill_id = skill_name}
        perm == [role_id |-> role_id, skill_id |-> skill_name, can_use |-> can_use]
    IN  /\ skill_name \in Skills
        /\ existing = {} => Cardinality(role_skill_permissions) < MaxRows
        /\ role_skill_permissions' = (role_skill_permissions \ existing) \cup {perm}
        /\ skill_reply' = NoSkillReply
        /\ UNCHANGED <<nonSkillVars, users, tool_reply, department_skill_permissions,
                       skill_table, skill_cache>>

\* SkillService.remove_role_permission
RemoveRolePermission(skill_name, role_id) ==
    LET perm == {p \in role_skill_permissions :
                    p.role_id = role_id /\ p.skill_id = skill_name}
    IN  /\ perm # {}
        /\ role_skill_permissions' = role_skill_permissions \ perm
        /\ skill_reply' = NoSkillReply
        /\ UNCHANGED <<nonSkillVars, users, tool_reply, department_skill_permissions,
                       skill_table, skill_cache>>

\* SkillService.add_department_permission
AddDepartmentPermission(skill_name, department_id, is_allowed) ==
    LET existing == {r \in department_skill_permissions :
                        r.department_id = department_id /\ r.skill_id = skill_name}
        perm == [department_id |-> department_id, skill_id |-> skill_name,
                 is_allowed |-> is_allowed]
    IN  /\ skill_name \in Skills
        /\ existing = {} => Cardinality(department_skill_permissions) < MaxRows
        /\ department_skill_permissions' =
              (department_skill_permissions \ existing) \cup {perm}
        /\ skill_reply' = NoSkillReply
        /\ UNCHANGED <<nonSkillVars, users, tool_reply, role_skill_permissions,
                       skill_table, skill_cache>>

\* SkillService.remove_department_permission
RemoveDepartmentPermission(skill_name, department_id) ==
    LET perm == {r \in department_skill_permissions :
                    r.department_id = department_id /\ r.skill_id = skill_name}
    IN  /\ perm # {}
        /\ department_skill_permissions' = department_skill_permissions \ perm
        /\ skill_reply' = NoSkillReply
        /\ UNCHANGED <<nonSkillVars, users, tool_reply, role_skill_permissions,
                       skill_table, skill_cache>>

\* SkillService.deactivate_skill
DeactivateSkill(name) ==
    /\ name \in skill_table
    /\ skill_table' = skill_table \ {name}
    /\ skill_reply' = NoSkillReply
    /\ UNCHANGED <<nonSkillVars, users, tool_reply, role_skill_permissions,
                   department_skill_permissions, skill_cache>>

\* the row of the user is written: admin flag, roles, department
AssignRoles(row) ==
    /\ users' = <<row>>
    /\ skill_reply' = NoSkillReply
    /\ tool_reply' = NoToolReply
    /\ UNCHANGED <<nonSkillVars, role_skill_permissions, department_skill_permissions,
                   skill_table, skill_cache>>

\* the Redis entry expires (TTL 300 s)
SkillCacheExpire ==
    /\ skill_cache.cached
    /\ skill_cache' = NoCache
    /\ UNCHANGED <<nonSkillVars, users, tool_reply, role_skill_permissions,
                   department_skill_permissions, skill_table, skill_reply>>

NextSkillFilter ==
    \/ \E user_id \in UserIds, skills \in SkillLists, redis_available \in BOOLEAN :
          FilterSkillsByPermission(user_id, skills, redis_available)
    \/ \E skill_name \in Skills, role_id \in Roles, can_use \in BOOLEAN :
          AddRolePermission(skill_name, role_id, can_use)
    \/ \E skill_name \in Skills, role_id \in Roles :
          RemoveRolePermission(skill_name, role_id)
    \/ SkillCacheExpire

SpecSkillFilter == Init /\ [][NextSkillFilter]_vars

NextSkillPermissions ==
    \/ \E user_id \in UserIds, redis_available \in BOOLEAN :
          GetUserSkillPermissions(user_id, redis_available)
    \/ \E user_id \in UserIds \ {NoUserId} : GetAllowedSkillNames(user_id)
    \/ \E skill_name \in Skills, role_id \in Roles, can_use \in BOOLEAN :
          AddRolePermission(skill_name, role_id, can_use)
    \/ \E skill_name \in Skills, role_id \in Roles :
          RemoveRolePermission(skill_name, role_id)
    \/ \E skill_name \in Skills, department_id \in Departments, is_allowed \in BOOLEAN :
          AddDepartmentPermission(skill_name, department_id, is_allowed)
    \/ \E skill_name \in Skills, department_id \in Departments :
          RemoveDepartmentPermission(skill_name, department_id)
    \/ \E name \in Skills : DeactivateSkill(name)
    \/ \E row \in UserRows : AssignRoles(row)
    \/ SkillCacheExpire

SpecSkillPermissions == Init /\ [][NextSkillPermissions]_vars

(***************************************************************************)
(* Properties of the skill filter (specification SpecSkillFilter)          *)
(***************************************************************************)
PositionIn(seq, x) == CHOOSE i \in DOMAIN seq : seq[i] = x

SkillGrantedByRole(user, skill_id) ==
    \E p \in role_skill_permissions :
        p.role_id \in user.roles /\ p.skill_id = skill_id /\ p.can_use
SkillBlockedByDepartment(user, skill_id) ==
    \E r \in department_skill_permissions :
        /\ r.department_id = user.department_id
        /\ r.skill_id = skill_id
        /\ ~r.is_allowed
SkillsOfUser(user) ==
    IF user.is_admin
    THEN skill_table
    ELSE {sk \in skill_table :
             SkillGrantedByRole(user, sk) /\ ~SkillBlockedByDepartment(user, sk)}

C28_SkillResolversAgree ==
    (/\ skill_reply.op = "get_allowed_skill_names"
     /\ skill_reply.user_id \in DOMAIN users)
        => /\ ~skill_reply.raised
           /\ skill_reply.permitted = SkillsOfUser(users[skill_reply.user_id])
           /\ skill_reply.permitted = QuerySkillNames(skill_reply.user_id).names

nonSubagentVars == <<turnVars, todoVars, permitted_skills, tool_grants,
                     active_mcp_tools, sandbox_manager, sandboxes, request, title,
                     reply, mcpVars, permVars, skillVars, modelVars, processorVars>>

\* a variant that hands the clone the todos list of the parent
CloneForSubagent_SharedTodos(objects, self) ==
    [heap |-> objects \o <<TodoList(<<>>), SubagentDict({})>>,
     clone |-> [self EXCEPT !.subagents = Len(objects) + 2]]

\* clone_for_subagent: a new DeepAgentDeps with the backend, user_id,
\* conversation_id and file_paths of self, a new empty list and a new empty
\* dict
CloneForSubagent(objects, self) ==
    [heap |-> objects \o <<TodoList(<<>>), SubagentDict({})>>,
     clone |-> [self EXCEPT !.todos = Len(objects) + 1,
                            !.subagents = Len(objects) + 2]]

\* the subagent configurations of the toolset
SubagentTypes == {"general-purpose", "researcher"}

\* clone_for_subagent called on a deps object
CallCloneForSubagent(d) ==
    /\ Len(deps) < 1 + MaxClones
    /\ LET r == CloneForSubagent(heap, deps[d])
       IN  /\ heap' = r.heap
           /\ deps' = Append(deps, r.clone)
    /\ UNCHANGED nonSubagentVars

\* the task tool, up to the run of the subagent: the subagent is taken from
\* deps.subagents, or created and cached there; then the deps are cloned.
\* Only the agent of the turn has the tool (include_subagents=False below it).
Task(subagent_type) ==
    /\ Len(deps) < 1 + MaxClones
    /\ LET cached == [heap EXCEPT ![deps[1].subagents].names = @ \cup {subagent_type}]
           r == CloneForSubagent(cached, deps[1])
       IN  /\ heap' = r.heap
           /\ deps' = Append(deps, r.clone)
    /\ UNCHANGED nonSubagentVars

\* write_todos called with the deps object d: deps.todos becomes a new list
WriteTodosThrough(d, todos) ==
    /\ Len(heap) < 3 + 2 * MaxClones + MaxWrites
    /\ heap' = Append(heap, TodoList(todos))
    /\ deps' = [deps EXCEPT ![d].todos = Len(heap) + 1]
    /\ UNCHANGED nonSubagentVars

NextSubagent ==
    \/ \E d \in DOMAIN deps : CallCloneForSubagent(d)
    \/ \E subagent_type \in SubagentTypes : Task(subagent_type)
    \/ \E d \in DOMAIN deps, todos \in {<<Todo("pending")>>, <<Todo("completed")>>} :
          WriteTodosThrough(d, todos)

SpecSubagent == Init /\ [][NextSubagent]_vars

(***************************************************************************)
(* Properties of the cloned deps (specification SpecSubagent)              *)
(***************************************************************************)
TodosOf(objects, d) == objects[d.todos].todos

\* what a call of clone_for_subagent on the deps object d would give
ClonedIsolated(d) ==
    LET r == CloneForSubagent(heap, deps[d])
        clone == r.clone
    IN  /\ clone.backend = deps[d].backend
        /\ clone.file_paths = deps[d].file_paths
        /\ clone.user_id = deps[d].user_id
        /\ clone.conversation_id = deps[d].conversation_id
        /\ TodosOf(r.heap, clone) = <<>>
        /\ r.heap[clone.subagents].names = {}
        /\ \A e \in DOMAIN deps :
              clone.todos # deps[e].todos /\ clone.subagents # deps[e].subagents
        /\ \A i \in DOMAIN heap : r.heap[i] = heap[i]

\* a todo write through one deps object leaves the todos of the others alone
WritesStayLocal ==
    \A d \in DOMAIN deps :
        deps'[d].todos # deps[d].todos
            => \A e \in DOMAIN deps \ {d} :
                  TodosOf(heap', deps'[e]) = TodosOf(heap, deps[e])

\* C23: clone_for_subagent returns deps that share the backend and the
\* file_paths object of the parent and keep its user_id and conversation_id,
\* with empty todos and subagents of their own whatever the parent holds; the
\* call changes nothing the parent holds, and a todo write through the clone
\* never changes the todo list of the parent.
C23_CloneIsolatesTodos ==
    /\ [](\A d \in DOMAIN deps : ClonedIsolated(d))
    /\ [][WritesStayLocal]_vars

C23_Witness ==
    /\ Len(deps) >= 2
    /\ deps[2].file_paths = deps[1].file_paths
    /\ TodosOf(heap, deps[1]) = <<Todo("pending")>>
    /\ TodosOf(heap, deps[2]) = <<Todo("completed")>>
    /\ heap[deps[1].subagents].names = {"researcher"}
    /\ heap[deps[2].subagents].names = {}

(***************************************************************************)
(* LLM model configurations: ModelManager (services/model_manager.py) and  *)
(* the endpoints of api/models.py                                          *)
(***************************************************************************)
nonModelVars == <<turnVars, todoVars, permitted_skills, tool_grants,
                  active_mcp_tools, sandbox_manager, sandboxes, request, title,
                  reply, mcpVars, permVars, skillVars, subagentVars, processorVars>>

\* LLMModelConfig.name and LLMModelConfig.model_name of the rows
ConfigNames == {"fast", "smart"}
ProviderModelNames == {"gpt-4o", "deepseek-chat"}

\* an optional field of a request body: unset, or one value
Optional(S) == {{}} \cup {{x} : x \in S}
ValueOr(option, default) == IF option = {} THEN default ELSE CHOOSE x \in option : TRUE

\* ModelConfigUpdate: the fields the manager reads
ModelConfigUpdate ==
    [model_name : Optional(ProviderModelNames), is_active : Optional(BOOLEAN),
     is_default : Optional(BOOLEAN)]

\* the instance _create_model_instance builds from a row
CreateModelInstance(name, config) == [config |-> name, model_name |-> config.model_name]

\* d without the key k / d with the key k set to v
DictDel(d, k) == [j \in DOMAIN d \ {k} |-> d[j]]
DictSet(d, k, v) == [j \in DOMAIN d \cup {k} |-> IF j = k THEN v ELSE d[j]]

\* the rows the two queries of get_model see: active rows with that name, and
\* active rows with that model_name
ActiveByName(table, model_name) ==
    {c \in DOMAIN table : c = model_name /\ table[c].is_active}
ActiveByModelName(table, model_name) ==
    {c \in DOMAIN table : table[c].model_name = model_name /\ table[c].is_active}

\* ModelManager.get_model: what a call may return, with the cache it leaves;
\* .first() takes one of the rows that fit
GetModelOutcomes(cache, table, model_name) ==
    IF model_name \in DOMAIN cache
    THEN {[cache |-> cache, raised |-> FALSE, cached |-> TRUE, model |-> cache[model_name]]}
    ELSE LET found == IF ActiveByName(table, model_name) # {}
                      THEN ActiveByName(table, model_name)
                      ELSE ActiveByModelName(table, model_name)
         IN  IF found = {}
             THEN {[cache |-> cache, raised |-> TRUE, cached |-> FALSE,
                    model |-> NoModelReply.model]}
             ELSE {[cache |-> DictSet(DictSet(cache, model_name,
                                              CreateModelInstance(c, table[c])),
                                      c, CreateModelInstance(c, table[c])),
                    raised |-> FALSE, cached |-> FALSE,
                    model |-> CreateModelInstance(c, table[c])] : c \in found}

ModelReply(op, model_name, o) ==
    [op |-> op, model_name |-> model_name, raised |-> o.raised, cached |-> o.cached,
     model |-> o.model]

\* model_manager.get_model(model_name, db)
GetModel(model_name) ==
    /\ \E o \in GetModelOutcomes(model_cache, llm_model_configs, model_name) :
          /\ model_cache' = o.cache
          /\ model_reply' = ModelReply("get_model", model_name, o)
    /\ UNCHANGED <<llm_model_configs, nonModelVars>>

\* model_manager.reload_model(model_name, db)
ReloadModel(model_name) ==
    /\ \E o \in GetModelOutcomes(DictDel(model_cache, model_name), llm_model_configs,
                                 model_name) :
          /\ model_cache' = o.cache
          /\ model_reply' = ModelReply("reload_model", model_name, o)
    /\ UNCHANGED <<llm_model_configs, nonModelVars>>

\* an endpoint that leaves the other defaults as they are
UnsetDefaults_Kept(table, keep) == table

\* the rows with is_default cleared, but for the row keep
UnsetDefaults(table, keep) ==
    [c \in DOMAIN table |->
        IF c = keep THEN table[c] ELSE [table[c] EXCEPT !.is_default = FALSE]]

\* POST /api/models
CreateModel(name, provider_model_name, is_default) ==
    /\ name \notin DOMAIN llm_model_configs
    /\ llm_model_configs' =
          DictSet(IF is_default THEN UnsetDefaults(llm_model_configs, name)
                  ELSE llm_model_configs,
                  name,
                  [model_name |-> provider_model_name, is_active |-> TRUE,
                   is_default |-> is_default])
    /\ model_reply' = NoModelReply
    /\ UNCHANGED <<model_cache, nonModelVars>>

\* PUT /api/models/{model_name}: the row is updated and committed, then the
\* manager reloads the name of the path
UpdateModel(model_name, body) ==
    /\ model_name \in DOMAIN llm_model_configs
    /\ LET unset == IF body.is_default = {TRUE}
                    THEN UnsetDefaults(llm_model_configs, model_name)
                    ELSE llm_model_configs
           row == unset[model_name]
           table == [unset EXCEPT ![model_name] =
                        [model_name |-> ValueOr(body.model_name, row.model_name),
                         is_active |-> ValueOr(body.is_active, row.is_active),
                         is_default |-> ValueOr(body.is_default, row.is_default)]]
       IN  /\ llm_model_configs' = table
           /\ \E o \in GetModelOutcomes(DictDel(model_cache, model_name), table,
                                        model_name) :
                 /\ model_cache' = o.cache
                 /\ model_reply' = ModelReply("reload_model", model_name, o)
    /\ UNCHANGED nonModelVars

\* the answer of an endpoint of api/models.py: refused (HTTPException) or not
ApiReply(op, model_name, refused) ==
    [NoModelReply EXCEPT !.op = op, !.model_name = model_name, !.raised = refused]

\* DELETE /api/models/{model_name}: 404 for an unknown name, 400 for the
\* default config; otherwise the row and the cache key of the name go
DeleteModel(model_name) ==
    /\ IF \/ model_name \notin DOMAIN llm_model_configs
          \/ llm_model_configs[model_name].is_default
       THEN /\ model_reply' = ApiReply("delete_model", model_name, TRUE)
            /\ UNCHANGED <<llm_model_configs, model_cache>>
       ELSE /\ llm_model_configs' = DictDel(llm_model_configs, model_name)
            /\ model_cache' = DictDel(model_cache, model_name)
            /\ model_reply' = ApiReply("delete_model", model_name, FALSE)
    /\ UNCHANGED nonModelVars

\* POST /api/models/{model_name}/set-default
SetDefaultModel(model_name) ==
    /\ model_name \in DOMAIN llm_model_configs
    /\ llm_model_configs' =
          [UnsetDefaults(llm_model_configs, model_name) EXCEPT
              ![model_name].is_default = TRUE]
    /\ model_reply' = ApiReply("set_default_model", model_name, FALSE)
    /\ UNCHANGED <<model_cache, nonModelVars>>

NextModels ==
    \/ \E model_name \in ConfigNames \cup ProviderModelNames : GetModel(model_name)
    \/ \E model_name \in ConfigNames \cup ProviderModelNames : ReloadModel(model_name)
    \/ \E name \in ConfigNames, m \in ProviderModelNames, is_default \in BOOLEAN :
          CreateModel(name, m, is_default)
    \/ \E model_name \in ConfigNames, body \in ModelConfigUpdate :
          UpdateModel(model_name, body)
    \/ \E model_name \in ConfigNames : DeleteModel(model_name)
    \/ \E model_name \in ConfigNames : SetDefaultModel(model_name)

SpecModels == Init /\ [][NextModels]_vars

\* the active rows a name stands for: by config name or by model_name
ActiveConfigsFor(model_name) ==
    ActiveByName(llm_model_configs, model_name)
        \cup ActiveByModelName(llm_model_configs, model_name)

\* C24: get_model raises ValueError whenever no active model config has the
\* name as its config name or its model_name, and after any sequence of
\* get_model, update_model, delete_model and reload_model a call never
\* returns a cached instance of a config that has been deleted or
\* deactivated.
C24_NoStaleModelInstance ==
    model_reply.op \in {"get_model", "reload_model"}
        => /\ ActiveConfigsFor(model_reply.model_name) = {} => model_reply.raised
           /\ ~model_reply.raised
                 => /\ model_reply.model.config \in DOMAIN llm_model_configs
                    /\ llm_model_configs[model_reply.model.config].is_active

C30_TransportFieldsPresent ==
    \A n \in DOMAIN mcp_servers :
        IF mcp_servers[n].transport_type = "stdio"
        THEN mcp_servers[n].command # NullName
        ELSE mcp_servers[n].url # NullName

(***************************************************************************)
(* Frames and rows of a tool result (specification Spec)                   *)
(***************************************************************************)
\* C31: on a tool result that arrives while tool calls are pending, the
\* model row with the tool calls is persisted before the tool_result frame
\* is emitted: whenever a client has received a tool_result frame, the model
\* row that holds the tool call of that frame is already committed.
C31_ModelRowBeforeResultFrame ==
    \A t \in Turns : \A i \in DOMAIN frames[t] :
        frames[t][i].type = "tool_result"
            => ModelRowsCalling(frames[t][i].tool_call_id) # {}

(***************************************************************************)
(* step_order over turns that do not overlap (specification                *)
(* SpecSequential)                                                         *)
(***************************************************************************)
\* the greatest step_order among the rows committed before position i
MaxBefore(i) ==
    IF i = 1 THEN 0 ELSE Max({messages[j].step_order : j \in 1..(i - 1)})

\* C32: in a turn that runs with no other turn active, the rows the turn
\* persists get consecutive step_order values that start one above the
\* greatest of the conversation (1 when it is empty), the user row first and
\* then every row in the order it is written; turns that do not overlap
\* leave step_order equal to 1..n, with no gap and no duplicate.
C32_SequentialStepOrder ==
    /\ \A i \in DOMAIN messages : messages[i].step_order = i
    /\ \A t \in Turns : pc[t] # "idle" =>
          LET P == persisted[t] IN
          /\ P[1].role = "user"
          /\ \A k \in DOMAIN P : k > 1 => P[k].role # "user"
          /\ \E i \in DOMAIN messages :
                /\ P[1].step_order = MaxBefore(i) + 1
                /\ \A k \in DOMAIN P : messages[i + k - 1] = P[k]

\* C32 witness: two turns, one after the other, have ended, and the second
\* has written a user row, a model row with its tool call and a tool-return
\* row after the two rows of the first.
C32_Witness ==
    /\ pc[1] = "done" /\ pc[2] = "done"
    /\ Len(persisted[1]) = 2
    /\ Len(persisted[2]) = 3
    /\ persisted[2][3].role = "tool-return"
    /\ persisted[2][3].step_order = 5

(***************************************************************************)
(* The todos from one turn to the next (specification SpecTodoTurns)       *)
(***************************************************************************)
\* Turns of one conversation that do not overlap and call write_todos.
NextTodoTurns ==
    \E t \in Turns :
        \/ StartTurnAlone(t)
        \/ \E todos \in TodoLists : WriteTodos(t, todos)
        \/ EndOfStream(t)
        \/ StreamError(t)
        \/ Disconnect(t)

SpecTodoTurns == Init /\ [][NextTodoTurns]_vars

\* the saved dicts say what the todos say: as many items, the same status at
\* every position
SameTodos(dicts, todos) ==
    /\ Len(dicts) = Len(todos)
    /\ \A i \in DOMAIN dicts : dicts[i].has_keys /\ dicts[i].status = todos[i].status

\* C34: when a turn completes normally, the conversation state saved at its
\* end has todos equal to the todo list the deps of the turn hold at the end
\* of the stream, and the next turn of the conversation starts with its
\* deps.todos rehydrated to exactly that list.
C34_TodosCarriedToNextTurn ==
    [][\A t \in Turns :
          /\ (pc[t] = "streaming" /\ pc'[t] = "done")
                => SameTodos(state_todos', deps_todos[t])
          /\ (pc[t] = "idle" /\ pc'[t] = "streaming")
                => \A u \in Turns \ {t} :
                      pc[u] = "done" => deps_todos'[t] = deps_todos[u]]_vars

\* C34 witness: the first turn has completed with two todos of different
\* status, the saved state holds them, and the second turn has started with
\* them.
C34_Witness ==
    /\ pc[1] = "done"
    /\ pc[2] = "streaming"
    /\ deps_todos[1] = <<Todo("completed"), Todo("in_progress")>>
    /\ SameTodos(state_todos, deps_todos[1])
    /\ deps_todos[2] = deps_todos[1]

RECURSIVE FrameText(_)
FrameText(F) ==
    IF F = <<>> THEN <<>>
    ELSE (IF Head(F).type = "text" THEN Head(F).content ELSE <<>>) \o FrameText(Tail(F))
RECURSIVE RowText(_)
RowText(P) ==
    IF P = <<>> THEN <<>>
    ELSE (IF Head(P).role = "model" THEN Head(P).content ELSE <<>>) \o RowText(Tail(P))

\* where the rows of a turn list a tool call / hold a tool return
CallPlaces(P, id) ==
    {<<i, k>> \in (DOMAIN P) \X (1..MaxCalls) :
        /\ P[i].role = "model"
        /\ k \in DOMAIN P[i].tool_calls
        /\ P[i].tool_calls[k].tool_call_id = id}
ReturnRows(P, id) ==
    {i \in DOMAIN P : P[i].role = "tool-return" /\ P[i].tool_call_id = id}

\* C36: after a turn that completes normally, what the client saw equals
\* what was persisted: the text of all text frames of the turn, put
\* together, is the content of the model rows of the turn put together in
\* step order; every tool_call frame is in exactly one persisted model row;
\* every tool_result frame has exactly one tool-return row with its
\* tool_call_id.
C36_FramesMatchRows ==
    \A t \in Turns : pc[t] = "done" =>
        LET F == frames[t]
            P == persisted[t]
        IN  /\ FrameText(F) = RowText(P)
            /\ \A k \in DOMAIN P : k > 1 => P[k - 1].step_order < P[k].step_order
            /\ \A i \in DOMAIN F :
                  /\ F[i].type = "tool_call"
                        => Cardinality(CallPlaces(P, F[i].tool_call_id)) = 1
                  /\ F[i].type = "tool_result"
                        => Cardinality(ReturnRows(P, F[i].tool_call_id)) = 1

\* C36 witness: a completed turn whose client saw text, a tool call, its
\* result and text again.
C36_Witness ==
    \E t \in Turns :
        /\ pc[t] = "done"
        /\ Len(frames[t]) = 4
        /\ frames[t][1].type = "text"
        /\ frames[t][2].type = "tool_call"
        /\ frames[t][3].type = "tool_result"
        /\ frames[t][4].type = "text"
        /\ Len(persisted[t]) = 4

(***************************************************************************)
(* The default model config (specification SpecModels)                     *)
(***************************************************************************)
DefaultConfigs(table) == {c \in DOMAIN table : table[c].is_default}

\* C37: after any sequence of create_model, update_model, set_default_model
\* and delete_model at most one model config has is_default set, and a
\* delete of the current default config is refused and leaves every config
\* as it was.
C37_AtMostOneDefault ==
    /\ [](Cardinality(DefaultConfigs(llm_model_configs)) <= 1)
    /\ [][(/\ model_reply'.op = "delete_model"
           /\ model_reply'.model_name \in DefaultConfigs(llm_model_configs))
              => /\ model_reply'.raised
                 /\ llm_model_configs' = llm_model_configs]_vars

\* C37 witness: two configs are stored, the second is the default, and a
\* delete of it has just been refused.
C37_Witness ==
    /\ DOMAIN llm_model_configs = ConfigNames
    /\ DefaultConfigs(llm_model_configs) = {"smart"}
    /\ model_reply = ApiReply("delete_model", "smart", TRUE)

(***************************************************************************)
(* deduplicate_stateful_tools_processor (processors/cleanup.py)            *)
(***************************************************************************)
nonProcessorVars == <<turnVars, todoVars, permitted_skills, tool_grants,
                      active_mcp_tools, sandbox_manager, sandboxes, request, title,
                      reply, mcpVars, permVars, skillVars, subagentVars, modelVars>>

\* the longest history the processor is given
MaxHistory == 5

TOOLS_TO_FILTER == {"write_todos", "read_todos", "load_skill", "list_skills"}

\* isinstance(part, ToolCallPart) and part.tool_name in TOOLS_TO_FILTER, and
\* the same for ToolReturnPart
TargetCall(part) == part.part_kind = "tool-call" /\ part.tool_name \in TOOLS_TO_FILTER
TargetReturn(part) == part.part_kind = "tool-return" /\ part.tool_name \in TOOLS_TO_FILTER

\* has_target_tool of a message
HasTargetTool(msg) ==
    \E k \in DOMAIN msg.parts :
        IF msg.kind = "response" THEN TargetCall(msg.parts[k])
        ELSE TargetReturn(msg.parts[k])

\* new_parts of a message that is not preserved
NewParts(msg) ==
    SelectSeq(msg.parts,
              LAMBDA part : IF msg.kind = "response" THEN ~TargetCall(part)
                            ELSE ~TargetReturn(part))

\* what the second loop appends for the message at position i
Kept(msgs, i, last_target_idx) ==
    IF i >= last_target_idx - 1 THEN <<msgs[i]>>
    ELSE IF NewParts(msgs[i]) = msgs[i].parts THEN <<msgs[i]>>
    ELSE IF NewParts(msgs[i]) = <<>> THEN <<>>
    ELSE <<[msgs[i] EXCEPT !.parts = NewParts(msgs[i])]>>

RECURSIVE KeptUpTo(_, _, _)
KeptUpTo(msgs, n, last_target_idx) ==
    IF n = 0 THEN <<>>
    ELSE KeptUpTo(msgs, n - 1, last_target_idx) \o Kept(msgs, n, last_target_idx)

\* deduplicate_stateful_tools_processor(ctx, messages)
DeduplicateStatefulTools(msgs) ==
    LET target_tool_indices == {i \in DOMAIN msgs : HasTargetTool(msgs[i])}
    IN  IF target_tool_indices = {} THEN msgs
        ELSE KeptUpTo(msgs, Len(msgs), Max(target_tool_indices))

\* the parts of a history, in order
RECURSIVE Parts(_)
Parts(msgs) == IF msgs = <<>> THEN <<>> ELSE Head(msgs).parts \o Parts(Tail(msgs))

\* the tool calls of a history that have no return yet
PendingCalls(msgs) ==
    LET P == Parts(msgs) IN
    {k \in DOMAIN P :
        /\ P[k].part_kind = "tool-call"
        /\ \A j \in DOMAIN P :
              ~(P[j].part_kind = "tool-return" /\ P[j].tool_call_id = P[k].tool_call_id)}

\* the names of the tools the LLM calls: one that is filtered, one that is not
CalledTools == {"write_todos", "read_file"}

\* the run adds a message: the history has grown since the processor ran
Grow(msg) ==
    /\ Len(history) < MaxHistory
    /\ history' = Append(history, msg)
    /\ new_messages' = NotProcessed
    /\ UNCHANGED nonProcessorVars

\* a user prompt
AppendUserPrompt ==
    /\ PendingCalls(history) = {}
    /\ Grow(ModelRequest(<<UserPromptPart(UserMessage(1))>>))

\* a response of the LLM: text, or one or two tool calls
AppendResponse(names) ==
    /\ history # <<>>
    /\ history[Len(history)].kind = "request"
    /\ PendingCalls(history) = {}
    /\ Grow(ModelResponse(
            IF names = <<>> THEN <<TextPart(Chunk(1))>>
            ELSE [k \in DOMAIN names |-> ToolCallPart(names[k], <<Len(history) + 1, k>>)]))

\* the returns of pending tool calls, one request for one or for several
AppendToolReturns(calls) ==
    /\ calls # {}
    /\ calls \subseteq PendingCalls(history)
    /\ LET P == Parts(history)
           returns == SelectSeq([k \in DOMAIN P |-> k], LAMBDA k : k \in calls)
       IN  Grow(ModelRequest([j \in DOMAIN returns |->
                   ToolReturnPart(P[returns[j]].tool_name, JsonDumps("ok"),
                                  P[returns[j]].tool_call_id)]))

\* the history processor runs before a model request: the history ends with
\* a request and every tool call has its return
RunProcessor ==
    /\ history # <<>>
    /\ history[Len(history)].kind = "request"
    /\ PendingCalls(history) = {}
    /\ new_messages' = [processed |-> TRUE, messages |-> DeduplicateStatefulTools(history)]
    /\ UNCHANGED <<history, nonProcessorVars>>

NextProcessor ==
    \/ AppendUserPrompt
    \/ \E names \in UNION {[1..n -> CalledTools] : n \in 0..2} : AppendResponse(names)
    \/ \E calls \in SUBSET PendingCalls(history) : AppendToolReturns(calls)
    \/ RunProcessor

SpecProcessor == Init /\ [][NextProcessor]_vars

\* every tool-return part comes after a response with the tool-call part of
\* the same tool_call_id
WellFormed(msgs) ==
    \A i \in DOMAIN msgs : \A k \in DOMAIN msgs[i].parts :
        msgs[i].parts[k].part_kind = "tool-return"
            => \E j \in 1..(i - 1) : \E m \in DOMAIN msgs[j].parts :
                  /\ msgs[j].kind = "response"
                  /\ msgs[j].parts[m].part_kind = "tool-call"
                  /\ msgs[j].parts[m].tool_call_id = msgs[i].parts[k].tool_call_id

HasReturn(msgs, id) ==
    \E k \in DOMAIN Parts(msgs) :
        Parts(msgs)[k].part_kind = "tool-return" /\ Parts(msgs)[k].tool_call_id = id

\* C38: the processor maps a well-formed history to a well-formed history:
\* it keeps no tool-return part whose tool-call part it removed and no
\* tool-call part whose tool-return part it removed, and it removes only
\* parts of write_todos, read_todos, load_skill and list_skills, all other
\* parts staying in their order.
C38_ProcessorKeepsWellFormed ==
    (new_messages.processed /\ WellFormed(history))
        => LET in == Parts(history)
               out == Parts(new_messages.messages)
           IN  /\ WellFormed(new_messages.messages)
               /\ \A k \in DOMAIN out :
                     (out[k].part_kind = "tool-call" /\ HasReturn(history, out[k].tool_call_id))
                        => HasReturn(new_messages.messages, out[k].tool_call_id)
               /\ out = SelectSeq(in, LAMBDA part :
                            \/ ~(TargetCall(part) \/ TargetReturn(part))
                            \/ \E k \in DOMAIN out : out[k] = part)

====
